---- MODULE Spec2Model ----
(***************************************************************************)
(* PolyPaint: state-machine model of the brush stroke engine               *)
(* (PaintableMesh in src/components/Scene.tsx), the stencil grid / LUT /   *)
(* bake pipeline (StencilPlane, ProjectionPreview, ProjectionBaker in      *)
(* src/components/Scene.tsx, StencilAPI in src/unnamed/part_001) and the   *)
(* gizmo interaction controller (src/components/Gizmo.tsx).                *)
(*                                                                         *)
(* Specifications of the module: SpecStroke, SpecGrid, SpecLut, SpecGizmo. *)
(* Each one moves only the variables of its own subsystem.                 *)
(***************************************************************************)
EXTENDS Integers, Sequences, FiniteSets, TLC

Null == "null"

\* A nullable number is a sequence: <<>> for null, <<n>> for the number n.
None == <<>>
Some(n) == <<n>>
ValueOf(o) == o[1]

\* ------------------------------------------------------------------------
\* Bounds of the model
\* ------------------------------------------------------------------------
\* Loop cuts are drawn from k / CutSteps, k in 0..CutSteps, CutSteps = 2 * HalfSteps.
HalfSteps == 2
\* Loop insertions, control-point drags and bake requests of one run.
MaxLoops == 2
MaxDrags == 1
MaxBakes == 1

\* Layers ever created; layer-list operations of one run.
MaxLayerId == 3
MaxLayerOps == 4

\* Pixels a paint gesture travels next to a projection.
PaintLen == 2

\* Pointer presses of one gizmo run (MaxClicks for the mode-switch clicks);
\* ray parameters (the t2 / distance /
\* angle a pointer ray yields) are drawn from 1..MaxRay.
MaxPresses == 2
MaxClicks == 3
MaxRay == 2

\* Ray-to-handle distances and ring hit parameters of the hover test are
\* drawn from 0..MaxDist.
MaxDist == 2

\* Mask images the brush can be given (0 is one that fails to load) and the
\* number of times brush.maskImage changes.
MaxMasks == 2
MaxMaskChanges == 3

\* Longest pointer path of one paint gesture, in canvas pixels.
MaxLen == 6
\* Largest brush size tried, in canvas pixels.
MaxBrushSize == 3

\* brush.spacing is a ratio; the model draws it from k / SpacingDen and
\* measures every length of the stroke engine in 1/SpacingDen pixel so that
\* brush.size * brush.spacing stays an exact integer.
SpacingDen == 2

VARIABLES
  \* ---- brush stroke engine (PaintableMesh) ----
  brushSize,            \* brush.size, pixels
  brushSpacing,         \* brush.spacing = brushSpacing / SpacingDen
  isAltPressed,         \* useMayaControls state
  gizmoDragging,        \* PaintableMesh state (isInteractingWithStencil)
  isStencilEditMode,    \* stencil.visible && stencil.mode === 'edit'
  activeLayerOk,        \* layers.find(l => l.id === activeLayerId) succeeds
  isPainting,           \* isPaintingRef.current
  lastUV,               \* lastUVRef.current: None or Some(position), 1/SpacingDen px
  distanceAccumulator,  \* distanceAccumulatorRef.current (1/SpacingDen px)
  compositeDirty,       \* compositeDirtyRef.current
  stamps,               \* drawStamp calls of the current gesture, in order
  pointerDown,          \* the pointer is physically pressed on the mesh
  pathStart,            \* pixel where the pointer went down
  pointerPos,           \* pixel where the pointer is now
  pathDir,              \* direction of the straight pointer path: 1 or -1
  delivered,            \* pixels handed to paintStroke in this gesture, in order
  gestureEnded,         \* handlePointerUp has run for the current gesture
  emitted,              \* PAINT_START / PAINT_END events emitted in this gesture, in order
  maskImage,            \* brush.maskImage of the last render: <<>> or <<source>>
  maskCanvasRef,        \* maskCanvasRef.current: <<>> or the mask canvas
  pendingMasks,         \* sources of the processMaskTip promises not yet settled
  maskChanges           \* counter that bounds the model

VARIABLES
  \* ---- stencil grid / LUT / bake pipeline ----
  mounted,              \* StencilPlane, ProjectionPreview, ProjectionBaker are mounted
  rowCuts, colCuts,     \* stencil.rowCuts / colCuts as last rendered (App state)
  nextRowCuts, nextColCuts,  \* the same with the queued setStencil updaters applied
  gridPoints,           \* StencilPlane state as last rendered
  nextGridPoints,       \* the same with the queued setGridPoints updates applied
  selectedPoint, nextSelectedPoint,  \* <<>> or <<r, c>> (0-based)
  hoverLoop, nextHoverLoop,          \* <<>> or <<type, value>>
  lutFbo,               \* <<>> or <<rect>>: framing of the content of lutFBO.texture
  lutTexture,           \* PaintableMesh state lutTexture is non-null
  lutBounds,            \* PaintableMesh state lutBounds (a rect)
  nextLut,              \* <<>> or <<rect>>: queued setLutTexture / setLutBounds
  lastRead,             \* <<>> or the (bounds, LUT content) pair the last consumer read
  layerBakes,           \* per layer: number of bake results drawn into its canvas
  bakeLog,              \* <<>> or what the last REQ_BAKE_PROJECTION handler saw and did
  loopThrew,            \* a handleInternalAddLoop call threw a TypeError
  crashed,              \* an effect threw: React unmounted the tree
  loopsAdded, dragsDone, bakesDone,  \* counters that bound the model
  uploadStencil         \* <<>> or the <<rowCuts, colCuts>> of the stencil a pending upload closed over

VARIABLES
  \* ---- gizmo interaction controller (Gizmo.tsx) ----
  hoverAxis, activeAxis,          \* state as last rendered: what the bound listeners read
  nextHoverAxis, nextActiveAxis,  \* the same with the queued setState calls applied
  mode, nextMode,                 \* mode prop as last rendered / after onModeChange
  buttonDown,                     \* the pointer is physically pressed
  captured,                       \* the canvas holds the pointer capture
  dragStartCalls, dragEndCalls,   \* onDragStart / onDragEnd calls so far
  position, scale, quaternion,    \* target.position, target.scale, target orientation
  dragStartPoint,                 \* dragStartPoint.current.x
  dragStartTargetPos,             \* dragStartTargetPos.current
  dragStartTargetScale,           \* dragStartTargetScale.current
  dragStartAngle,                 \* dragStartAngle.current
  scaleAtDragStart,               \* target.scale when onDragStart was last called
  modeAtMount,                    \* the mode prop of the first render
  modeChangeCalls,                \* onModeChange calls so far
  lastMoveRay,                    \* what the ray helpers returned to the last drag move
  presses,                        \* counter that bounds the model
  rendererRef,                    \* rendererRef.current is a GizmoRenderer
  program,                        \* the renderer's shader program linked
  gizmoDrawn,                     \* the parts the last frame drew, in order (None: nothing)
  glFlags,                        \* <<DEPTH_TEST enabled, BLEND enabled>> of the GL context
  gizmoTick,                      \* flips on every frame of the gizmo
  rayHits,                        \* <<>> or the hit tests getHoverAxis makes on the pointer ray
  refOrigin                       \* per reference (point, angle): <<>> or the <<drag, axis, mode>> of the pointer-down that wrote it

VARIABLES
  \* ---- layer list (App, LayerAPI) and the composite (PaintableMesh) ----
  layers,               \* App's layers state as last rendered
  nextLayers,           \* the same with the queued setLayers calls applied
  sceneLayers,          \* layers prop of PaintableMesh's last render (its closures)
  layerSeq,             \* id the next LayerAPI.create returns
  bakeTimers,           \* layer ids of the pending setTimeout callbacks
  lastRemove,           \* <<>> or <<id, what handleRemoveLayer did>>
  composite,            \* what the composite canvas was last redrawn from
  redraws,              \* composite redraws by the last rendered frame
  frameTick,            \* flips with every rendered frame
  layerOps,             \* counter that bounds the model
  activeLayerId,        \* App's activeLayerId state as last rendered (0: the initial '')
  nextActiveLayerId     \* the same with the queued setActiveLayerId calls applied

maskV == <<maskImage, maskCanvasRef, pendingMasks, maskChanges>>

strokeOnly == <<brushSize, brushSpacing, isAltPressed, gizmoDragging,
                isStencilEditMode, activeLayerOk, isPainting, lastUV,
                distanceAccumulator, stamps, pointerDown,
                pathStart, pointerPos, pathDir, delivered, gestureEnded, emitted,
                maskV>>

strokeVars == <<strokeOnly, compositeDirty>>

gridVars == <<mounted, rowCuts, colCuts, nextRowCuts, nextColCuts, gridPoints,
              nextGridPoints, selectedPoint, nextSelectedPoint, hoverLoop,
              nextHoverLoop, lutFbo, lutTexture, lutBounds,
              nextLut, lastRead, layerBakes, bakeLog, loopThrew,
              crashed, loopsAdded, dragsDone, bakesDone, uploadStencil>>

rendererV == <<rendererRef, program, gizmoDrawn, glFlags, gizmoTick>>

hoverV == <<rayHits>>

refV == <<refOrigin>>

gizmoVars == <<hoverAxis, activeAxis, nextHoverAxis, nextActiveAxis, mode,
               nextMode, buttonDown, captured, dragStartCalls, dragEndCalls,
               position, scale, quaternion, dragStartPoint, dragStartTargetPos,
               dragStartTargetScale, dragStartAngle, scaleAtDragStart,
               modeAtMount, modeChangeCalls, lastMoveRay, presses,
               rendererV, hoverV, refV>>

activeV == <<activeLayerId, nextActiveLayerId>>

layerVars == <<layers, nextLayers, sceneLayers, layerSeq, bakeTimers,
               lastRemove, layerOps, activeV>>

compositeV == <<composite, redraws, frameTick>>

vars == <<strokeVars, gridVars, gizmoVars, layerVars, compositeV>>

\* ------------------------------------------------------------------------
\* Helpers
\* ------------------------------------------------------------------------
\* Vec2Utils.distance restricted to points of one line.
Abs(x) == IF x < 0 THEN -x ELSE x

\* Vec2Utils.normalize restricted to one line: the unit direction.
Sign(x) == IF x > 0 THEN 1 ELSE IF x < 0 THEN -1 ELSE 0

Max(a, b) == IF a >= b THEN a ELSE b
Min(a, b) == IF a <= b THEN a ELSE b

\* JavaScript numbers of the grid code are modelled as exact rationals
\* <<n, d>> in lowest terms with d > 0.
RECURSIVE GCD(_, _)
GCD(a, b) == IF b = 0 THEN a ELSE GCD(b, a % b)

Q(n, d) ==
  LET s == IF d < 0 THEN -1 ELSE 1
      g == GCD(Abs(n), Abs(d))
  IN  <<(s * n) \div g, (s * d) \div g>>

QInt(n) == <<n, 1>>
QAdd(a, b) == Q(a[1] * b[2] + b[1] * a[2], a[2] * b[2])
QSub(a, b) == Q(a[1] * b[2] - b[1] * a[2], a[2] * b[2])
QMul(a, b) == Q(a[1] * b[1], a[2] * b[2])
QLess(a, b) == a[1] * b[2] < b[1] * a[2]
QMin(a, b) == IF QLess(b, a) THEN b ELSE a
QMax(a, b) == IF QLess(a, b) THEN b ELSE a

\* Array access with JavaScript's 0-based indices: a[i] is undefined outside.
Defined(a, i) == i >= 0 /\ i < Len(a)
At(a, i) == a[i + 1]

\* a.splice(i, 0, x) for i >= 0: an i beyond the end appends.
Splice(a, i, x) ==
  LET k == Min(i, Len(a))
  IN  SubSeq(a, 1, k) \o <<x>> \o SubSeq(a, k + 1, Len(a))

\* ------------------------------------------------------------------------
\* Stencil grid: pure parts
\* ------------------------------------------------------------------------
CutSteps == 2 * HalfSteps
CutValues == 0..CutSteps

\* StencilAPI.getDefaults: rowCuts = colCuts = [0, 1]; aspectRatio = 1.
DefaultCuts == <<0, CutSteps>>
AspectRatio == 1

Half == Q(1, 2)
Point(x, y) == <<x, y>>
ZeroPoint == Point(QInt(0), QInt(0))

\* The initial 2x2 grid of StencilPlane: bottom row first.
InitialGrid ==
  LET hx == QMul(Half, QInt(AspectRatio))
      lo == QSub(QInt(0), Half)
  IN  << <<Point(QSub(QInt(0), hx), lo),   Point(hx, lo)>>,
         <<Point(QSub(QInt(0), hx), Half), Point(hx, Half)>> >>

\* Vec3Utils.lerp(a, b, t): a + (b - a) * t, per component.
Lerp(a, b, t) ==
  Point(QAdd(a[1], QMul(QSub(b[1], a[1]), t)),
        QAdd(a[2], QMul(QSub(b[2], a[2]), t)))

\* while (insertIndex < cuts.length && cuts[insertIndex] < val) insertIndex++
RECURSIVE InsertIndexFrom(_, _, _)
InsertIndexFrom(cuts, val, i) ==
  IF i < Len(cuts) /\ At(cuts, i) < val
  THEN InsertIndexFrom(cuts, val, i + 1)
  ELSE i

InsertIndex(cuts, val) == InsertIndexFrom(cuts, val, 0)

\* Fault-injection variant of Fraction: t stays at its initial 0.5.
FractionNotUpdated(val, vPrev, vNext) == Half

\* let t = 0.5; if (vNext > vPrev) t = (val - vPrev) / (vNext - vPrev)
Fraction(val, vPrev, vNext) ==
  IF vNext > vPrev THEN Q(val - vPrev, vNext - vPrev) ELSE Half

\* newCuts.sort((a, b) => a - b), as an insertion sort.
RECURSIVE SortedInsert(_, _)
SortedInsert(sorted, x) ==
  IF sorted = <<>> THEN <<x>>
  ELSE IF x < Head(sorted) THEN <<x>> \o sorted
  ELSE <<Head(sorted)>> \o SortedInsert(Tail(sorted), x)

RECURSIVE SortCuts(_)
SortCuts(a) ==
  IF a = <<>> THEN <<>>
  ELSE SortedInsert(SortCuts(SubSeq(a, 1, Len(a) - 1)), a[Len(a)])

\* StencilAPI.addCut
AddCut(cuts, value) == SortCuts(Append(cuts, value))

\* handleInternalAddLoop, type === 'row': the new gridPoints, or the fact
\* that gridPoints[prevRowIdx][c] threw because the row does not exist.
AddRowLoop(gp, rc, cc, val) ==
  LET idx  == InsertIndex(rc, val)
      prev == Max(0, idx - 1)
      next == Min(Len(rc) - 1, idx)
      t    == Fraction(val, At(rc, prev), At(rc, next))
  IN  IF ~Defined(gp, prev) \/ ~Defined(gp, next)
      THEN [threw |-> TRUE, points |-> gp]
      ELSE LET rowA == At(gp, prev)
               rowB == At(gp, next)
               newRow == [c \in 1..Len(cc) |->
                            IF Defined(rowA, c - 1) /\ Defined(rowB, c - 1)
                            THEN Lerp(rowA[c], rowB[c], t)
                            ELSE ZeroPoint]
           IN  [threw |-> FALSE, points |-> Splice(gp, idx, newRow)]

\* handleInternalAddLoop, type === 'col'.
AddColLoop(gp, rc, cc, val) ==
  LET idx  == InsertIndex(cc, val)
      prev == Max(0, idx - 1)
      next == Min(Len(cc) - 1, idx)
      t    == Fraction(val, At(cc, prev), At(cc, next))
  IN  [threw  |-> FALSE,
       points |-> [r \in 1..Len(gp) |->
                     IF Defined(gp[r], prev) /\ Defined(gp[r], next)
                     THEN Splice(gp[r], idx, Lerp(At(gp[r], prev), At(gp[r], next), t))
                     ELSE gp[r]]]

\* The gridPoints handleInternalAddLoop hands to setGridPoints.
HandleInternalAddLoop(gp, rc, cc, type, val) ==
  IF type = "row" THEN AddRowLoop(gp, rc, cc, val) ELSE AddColLoop(gp, rc, cc, val)

\* const isGeometryValid = gridPoints.length === rowCuts.length &&
\*                         gridPoints[0]?.length === colCuts.length
IsGeometryValid(gp, rc, cc) ==
  /\ Len(gp) = Len(rc)
  /\ Len(gp) > 0
  /\ Len(gp[1]) = Len(cc)

Layers == {1, 2}
AllLayerIds == 1..MaxLayerId
ZeroBounds == <<QInt(0), QInt(0), QInt(0), QInt(1)>>

\* ------------------------------------------------------------------------
\* LayerAPI (layerService.ts): the list operations. A layer is its id, its
\* visible flag and its name (0 is the name it was created with); its canvas
\* goes with the id.
\* ------------------------------------------------------------------------
LayerNames == {0, 1}

\* LayerAPI.create
Layer(i) == [id |-> i, visible |-> TRUE, name |-> 0]

IdsOf(list) == {list[i].id : i \in 1..Len(list)}

\* layers.findIndex(l => l.id === id), 0 for -1
FindIndex(list, id) ==
  IF id \in IdsOf(list) THEN CHOOSE i \in 1..Len(list) : list[i].id = id ELSE 0

\* LayerAPI.toggleVisibility
ToggleVisibility(list, id) ==
  [i \in 1..Len(list) |->
     IF list[i].id = id THEN [list[i] EXCEPT !.visible = ~@] ELSE list[i]]

\* Fault-injection variant of Remove: the length is not tested.
RemoveUnguarded(list, id) == SelectSeq(list, LAMBDA l : l.id # id)

\* LayerAPI.remove
Remove(list, id) ==
  IF Len(list) <= 1 THEN list ELSE SelectSeq(list, LAMBDA l : l.id # id)

\* LayerAPI.rename
Rename(list, id, name) ==
  [i \in 1..Len(list) |->
     IF list[i].id = id THEN [list[i] EXCEPT !.name = name] ELSE list[i]]

\* LayerAPI.reorder: 'up' is towards the end of the array.
Reorder(list, id, direction) ==
  LET index == FindIndex(list, id)
  IN  IF index = 0 THEN list
      ELSE IF direction = "up" /\ index < Len(list)
      THEN [list EXCEPT ![index] = list[index + 1], ![index + 1] = list[index]]
      ELSE IF direction = "down" /\ index > 1
      THEN [list EXCEPT ![index] = list[index - 1], ![index - 1] = list[index]]
      ELSE list

\* What the composite useFrame draws: the visible layers of its list in
\* order, each with what its canvas holds (bake results, stamps).
CompositeOf(list) ==
  <<[i \in 1..Len(list) |-> IF list[i].visible THEN list[i].id ELSE 0],
    layerBakes, stamps>>

\* ------------------------------------------------------------------------
\* Values of each subsystem before it is used
\* ------------------------------------------------------------------------
\* App with the list `rendered` on screen and `queued` in its state.
LayersStart(rendered, queued) ==
  /\ layers = rendered
  /\ nextLayers = queued
  /\ sceneLayers = rendered
  /\ layerSeq = Len(queued) + 1
  /\ bakeTimers = <<>>
  /\ lastRemove = <<>>
  /\ composite = <<>>
  /\ redraws = 0
  /\ frameTick = FALSE
  /\ layerOps = 0
  /\ activeLayerId = (IF rendered = <<>> THEN 0 ELSE rendered[Len(rendered)].id)
  /\ nextActiveLayerId = queued[Len(queued)].id

\* Two layers on screen, nothing queued.
LayersIdle == LayersStart(<<Layer(1), Layer(2)>>, <<Layer(1), Layer(2)>>)

GridIdle ==
  /\ mounted = FALSE
  /\ rowCuts = DefaultCuts
  /\ colCuts = DefaultCuts
  /\ nextRowCuts = DefaultCuts
  /\ nextColCuts = DefaultCuts
  /\ gridPoints = <<>>
  /\ nextGridPoints = <<>>
  /\ selectedPoint = <<>>
  /\ nextSelectedPoint = <<>>
  /\ hoverLoop = <<>>
  /\ nextHoverLoop = <<>>
  /\ lutFbo = <<>>
  /\ lutTexture = FALSE
  /\ lutBounds = ZeroBounds
  /\ nextLut = <<>>
  /\ lastRead = <<>>
  /\ layerBakes = [l \in AllLayerIds |-> 0]
  /\ bakeLog = <<>>
  /\ loopThrew = FALSE
  /\ crashed = FALSE
  /\ loopsAdded = 0
  /\ dragsDone = 0
  /\ bakesDone = 0
  /\ uploadStencil = <<>>

\* No brush tip chosen (brush.maskImage null); maskCanvasRef starts null.
MaskIdle ==
  /\ maskImage = <<>>
  /\ maskCanvasRef = <<>>
  /\ pendingMasks = <<>>
  /\ maskChanges = 0

StrokeIdle ==
  /\ MaskIdle
  /\ brushSize = 1
  /\ brushSpacing = 1
  /\ activeLayerOk = TRUE
  /\ isAltPressed = FALSE
  /\ gizmoDragging = FALSE
  /\ isStencilEditMode = FALSE
  /\ isPainting = FALSE
  /\ lastUV = None
  /\ distanceAccumulator = 0
  /\ stamps = <<>>
  /\ pointerDown = FALSE
  /\ pathStart = 0
  /\ pointerPos = 0
  /\ pathDir = 1
  /\ delivered = <<>>
  /\ gestureEnded = FALSE
  /\ emitted = <<>>

\* The target object carries a scale with three different components.
InitialScale == <<QInt(1), QInt(2), QInt(3)>>

\* The renderer after the init effect: ref tells whether the context was
\* WebGL 2 (rendererRef.current set), prog whether the program linked.
RendererStart(ref, prog) ==
  /\ rendererRef = ref
  /\ program = prog
  /\ gizmoDrawn = None
  /\ glFlags = <<TRUE, FALSE>>
  /\ gizmoTick = FALSE

\* The gizmo's state and refs after construction, given the mode prop m.
GizmoMounted(m) ==
  /\ hoverAxis = Null
  /\ activeAxis = Null
  /\ nextHoverAxis = Null
  /\ nextActiveAxis = Null
  /\ mode = m
  /\ nextMode = m
  /\ buttonDown = FALSE
  /\ captured = FALSE
  /\ dragStartCalls = 0
  /\ dragEndCalls = 0
  /\ position = <<0, 0, 0>>
  /\ scale = InitialScale
  /\ quaternion = <<0, 0, 0>>
  /\ dragStartPoint = 0
  /\ dragStartTargetPos = <<0, 0, 0>>
  /\ dragStartTargetScale = <<QInt(1), QInt(1), QInt(1)>>
  /\ dragStartAngle = 0
  /\ scaleAtDragStart = InitialScale
  /\ modeAtMount = m
  /\ modeChangeCalls = 0
  /\ lastMoveRay = None
  /\ refOrigin = [point |-> <<>>, angle |-> <<>>]
  /\ presses = 0

\* The gizmo after construction on a WebGL 2 context.
GizmoStart(m) == GizmoMounted(m) /\ RendererStart(TRUE, TRUE) /\ rayHits = <<>>

GizmoIdle == GizmoStart("translate")

\* ------------------------------------------------------------------------
\* Brush stroke engine
\* ------------------------------------------------------------------------
\* Math.max(1, brush.size * brush.spacing), in 1/SpacingDen pixel.
StepSize(size, spacing) == Max(SpacingDen, size * spacing)

\* Fault-injection variant of StampLoop: the loop runs while the accumulator
\* exceeds the step, so it can return with a whole step left in it.
RECURSIVE StampLoopLeavesStep(_, _, _)
StampLoopLeavesStep(st, cur, step) ==
  IF st.acc > step
  THEN LET nextPos == ValueOf(st.last) + Sign(cur - ValueOf(st.last)) * step
       IN  StampLoopLeavesStep([last   |-> Some(nextPos),
                                acc    |-> st.acc - step,
                                stamps |-> Append(st.stamps, nextPos)], cur, step)
  ELSE st

\* The while loop of paintStroke. st = [last, acc, stamps].
RECURSIVE StampLoop(_, _, _)
StampLoop(st, cur, step) ==
  IF st.acc >= step
  THEN LET nextPos == ValueOf(st.last) + Sign(cur - ValueOf(st.last)) * step
       IN  StampLoop([last   |-> Some(nextPos),
                      acc    |-> st.acc - step,
                      stamps |-> Append(st.stamps, nextPos)], cur, step)
  ELSE st

\* paintStroke(uv) with uv already converted to canvas pixels along the
\* path (cur, in 1/SpacingDen pixel). st = [last, acc, stamps].
PaintStroke(st, cur, step) ==
  IF st.last = None
  THEN [last |-> Some(cur), acc |-> st.acc, stamps |-> Append(st.stamps, cur)]
  ELSE StampLoop([last   |-> st.last,
                  acc    |-> st.acc + Abs(cur - ValueOf(st.last)),
                  stamps |-> st.stamps], cur, step)

StrokeState == [last |-> lastUV, acc |-> distanceAccumulator, stamps |-> stamps]

ToUnits(px) == px * SpacingDen

\* The part of handlePointerDown / handlePointerMove that calls paintStroke.
CallPaintStroke(st, px) ==
  IF activeLayerOk
  THEN LET r == PaintStroke(st, ToUnits(px), StepSize(brushSize, brushSpacing))
       IN  /\ lastUV' = r.last
           /\ distanceAccumulator' = r.acc
           /\ stamps' = r.stamps
           /\ compositeDirty' = TRUE
  ELSE /\ lastUV' = st.last
       /\ distanceAccumulator' = st.acc
       /\ stamps' = st.stamps
       /\ UNCHANGED compositeDirty

\* const isInteractingWithStencil = gizmoDragging (Scene.tsx:780).
isInteractingWithStencil == gizmoDragging

StrokeBrush == <<brushSize, brushSpacing, activeLayerOk, maskV>>
StrokeFlags == <<isAltPressed, gizmoDragging, isStencilEditMode>>

InitStroke ==
  /\ brushSize \in 1..MaxBrushSize
  /\ brushSpacing \in 0..SpacingDen
  /\ activeLayerOk \in BOOLEAN
  /\ isAltPressed = FALSE
  /\ gizmoDragging = FALSE
  /\ isStencilEditMode = FALSE
  /\ isPainting = FALSE
  /\ lastUV = None
  /\ distanceAccumulator = 0
  /\ compositeDirty = FALSE
  /\ stamps = <<>>
  /\ pointerDown = FALSE
  /\ pathStart = 0
  /\ pointerPos = 0
  /\ pathDir = 1
  /\ delivered = <<>>
  /\ gestureEnded = FALSE
  /\ emitted = <<>>
  /\ MaskIdle
  /\ GridIdle
  /\ GizmoIdle
  /\ LayersIdle

\* handlePointerDown: the pointer goes down on the mesh at pixel p (e.uv is
\* set); d is the direction the pointer will travel along its line.
HandlePointerDown(p, d) ==
  /\ UNCHANGED <<gridVars, gizmoVars, layerVars, compositeV>>
  /\ ~pointerDown
  /\ pointerDown' = TRUE
  /\ pathStart' = p
  /\ pointerPos' = p
  /\ pathDir' = d
  /\ gestureEnded' = FALSE
  /\ IF isAltPressed
     THEN /\ stamps' = <<>>
          /\ delivered' = <<>>
          /\ emitted' = <<>>
          /\ UNCHANGED <<isPainting, lastUV, distanceAccumulator, compositeDirty>>
     ELSE IF ~isInteractingWithStencil /\ ~isStencilEditMode
     THEN /\ emitted' = <<"PAINT_START">>
          /\ isPainting' = TRUE
          /\ CallPaintStroke([last |-> None, acc |-> 0, stamps |-> <<>>], p)
          /\ delivered' = <<p>>
     ELSE /\ stamps' = <<>>
          /\ delivered' = <<>>
          /\ emitted' = <<>>
          /\ UNCHANGED <<isPainting, lastUV, distanceAccumulator, compositeDirty>>
  /\ UNCHANGED <<StrokeBrush, StrokeFlags>>

\* handlePointerMove: the pressed pointer moves on along its line to pixel p.
HandlePointerMove(p) ==
  /\ UNCHANGED <<gridVars, gizmoVars, layerVars, compositeV>>
  /\ pointerDown
  /\ (p - pointerPos) * pathDir > 0
  /\ Abs(p - pathStart) <= MaxLen
  /\ pointerPos' = p
  /\ IF isAltPressed
     THEN UNCHANGED <<lastUV, distanceAccumulator, compositeDirty, stamps, delivered>>
     ELSE IF isPainting /\ ~isInteractingWithStencil /\ ~isStencilEditMode
     THEN /\ CallPaintStroke(StrokeState, p)
          /\ delivered' = Append(delivered, p)
     ELSE UNCHANGED <<lastUV, distanceAccumulator, compositeDirty, stamps, delivered>>
  /\ UNCHANGED <<StrokeBrush, StrokeFlags, isPainting, pointerDown, pathStart,
                 pathDir, gestureEnded, emitted>>

\* handlePointerUp.
HandlePointerUp ==
  /\ UNCHANGED <<gridVars, gizmoVars, layerVars, compositeV>>
  /\ pointerDown
  /\ pointerDown' = FALSE
  /\ emitted' = (IF isPainting THEN Append(emitted, "PAINT_END") ELSE emitted)
  /\ isPainting' = FALSE
  /\ lastUV' = None
  /\ gestureEnded' = TRUE
  /\ UNCHANGED <<StrokeBrush, StrokeFlags, distanceAccumulator, compositeDirty,
                 stamps, pathStart, pointerPos, pathDir, delivered>>

\* useMayaControls: keydown / keyup / blur of the Alt key.
SetAltPressed(b) ==
  /\ UNCHANGED <<gridVars, gizmoVars, layerVars, compositeV>>
  /\ isAltPressed # b
  /\ isAltPressed' = b
  /\ UNCHANGED <<StrokeBrush, gizmoDragging, isStencilEditMode, isPainting,
                 lastUV, distanceAccumulator, compositeDirty, stamps, pointerDown,
                 pathStart, pointerPos, pathDir, delivered, gestureEnded, emitted>>

\* onDragChange={setGizmoDragging}: the stencil's TransformControls start or
\* stop dragging.
SetGizmoDragging(b) ==
  /\ UNCHANGED <<gridVars, gizmoVars, layerVars, compositeV>>
  /\ gizmoDragging # b
  /\ gizmoDragging' = b
  /\ UNCHANGED <<StrokeBrush, isAltPressed, isStencilEditMode, isPainting,
                 lastUV, distanceAccumulator, compositeDirty, stamps, pointerDown,
                 pathStart, pointerPos, pathDir, delivered, gestureEnded, emitted>>

\* The stencil enters or leaves edit mode (stencil.visible, stencil.mode).
SetStencilEditMode(b) ==
  /\ UNCHANGED <<gridVars, gizmoVars, layerVars, compositeV>>
  /\ isStencilEditMode # b
  /\ isStencilEditMode' = b
  /\ UNCHANGED <<StrokeBrush, isAltPressed, gizmoDragging, isPainting,
                 lastUV, distanceAccumulator, compositeDirty, stamps, pointerDown,
                 pathStart, pointerPos, pathDir, delivered, gestureEnded, emitted>>

NextStroke ==
  \/ \E p \in 0..MaxLen, d \in {1, -1} : HandlePointerDown(p, d)
  \/ \E p \in 0..MaxLen : HandlePointerMove(p)
  \/ HandlePointerUp
  \/ \E b \in BOOLEAN : SetAltPressed(b)
  \/ \E b \in BOOLEAN : SetGizmoDragging(b)
  \/ \E b \in BOOLEAN : SetStencilEditMode(b)

SpecStroke == InitStroke /\ [][NextStroke]_vars

\* ------------------------------------------------------------------------
\* Stencil grid / LUT / bake pipeline
\*
\* React state is modelled per component as the value of the last render
\* (what every handler closure of that render reads) and the value the
\* queued updates will give at the next render. A direct setState(value)
\* replaces the queued value; an updater setState(prev => ...) is applied to
\* it. tool and editable are props the toolbar owns: each pointer event
\* carries the values the plane was rendered with.
\* ------------------------------------------------------------------------
cutsV  == <<rowCuts, colCuts, nextRowCuts, nextColCuts>>
planeV == <<gridPoints, nextGridPoints, selectedPoint, nextSelectedPoint,
            hoverLoop, nextHoverLoop>>
lutV   == <<lutFbo, lutTexture, lutBounds, nextLut, lastRead>>
bakeV  == <<layerBakes, bakeLog, bakesDone>>
insV   == <<loopThrew, loopsAdded>>
uploadV == <<uploadStencil>>

Tools == {"select", "loop"}

\* The rectangle the LUT effect frames: the bounding box of the control
\* points, padded by 0.1 on each side, as <<minX, minY, width, height>>.
Padding == Q(1, 10)

\* minX = Math.min(minX, p.x) / maxX = Math.max(maxX, p.x) over the points.
RECURSIVE QMinOf(_)
QMinOf(seq) == IF Len(seq) = 1 THEN seq[1] ELSE QMin(seq[1], QMinOf(Tail(seq)))

RECURSIVE QMaxOf(_)
QMaxOf(seq) == IF Len(seq) = 1 THEN seq[1] ELSE QMax(seq[1], QMaxOf(Tail(seq)))

Flatten(gp, rc, cc) ==
  [i \in 1..(Len(rc) * Len(cc)) |->
     gp[((i - 1) \div Len(cc)) + 1][((i - 1) % Len(cc)) + 1]]

LutRect(gp, rc, cc) ==
  LET ps   == Flatten(gp, rc, cc)
      xs   == [i \in 1..Len(ps) |-> ps[i][1]]
      ys   == [i \in 1..Len(ps) |-> ps[i][2]]
      lMinX == QSub(QMinOf(xs), Padding)
      lMaxX == QAdd(QMaxOf(xs), Padding)
      lMinY == QSub(QMinOf(ys), Padding)
      lMaxY == QAdd(QMaxOf(ys), Padding)
  IN  <<lMinX, lMinY, QSub(lMaxX, lMinX), QSub(lMaxY, lMinY)>>

\* Every gridPoints[r][c] the effect dereferences exists.
AllPointsDefined(gp, rc, cc) ==
  \A r \in 0..(Len(rc) - 1) : \A c \in 0..(Len(cc) - 1) :
     Defined(gp, r) /\ Defined(At(gp, r), c)

\* The passive effect of StencilPlane that follows a render with changed
\* gridPoints, rowCuts or colCuts: it moves the vertices, renders the LUT
\* into lutFBO and calls onLutUpdate (PaintableMesh.handleLutUpdate). The
\* result is the new <<lutFbo, nextLut, crashed>>.
LutEffect(gp, rc, cc) ==
  IF ~IsGeometryValid(gp, rc, cc)
  THEN <<lutFbo, nextLut, crashed>>
  ELSE IF ~AllPointsDefined(gp, rc, cc)
  THEN <<lutFbo, nextLut, TRUE>>
  ELSE <<<<LutRect(gp, rc, cc)>>, <<LutRect(gp, rc, cc)>>, crashed>>

InitGrid ==
  GridIdle /\ StrokeIdle /\ compositeDirty = FALSE /\ GizmoIdle /\ LayersIdle

\* stencil.visible becomes true and the textures have loaded: the Suspense
\* boundary mounts StencilPlane with its initial 2x2 grid.
MountStencil ==
  /\ ~mounted /\ ~crashed
  /\ mounted' = TRUE
  /\ gridPoints' = InitialGrid
  /\ nextGridPoints' = InitialGrid
  /\ LET e == LutEffect(InitialGrid, rowCuts, colCuts)
          IN  lutFbo' = e[1] /\ nextLut' = e[2] /\ crashed' = e[3]
  /\ UNCHANGED <<cutsV, selectedPoint, nextSelectedPoint, hoverLoop,
                 nextHoverLoop, lutTexture, lutBounds, lastRead, bakeV, insV, uploadV,
                 dragsDone>>
  /\ UNCHANGED <<strokeVars, gizmoVars, layerVars, compositeV>>

MinDist(cuts, x) ==
  LET ds == {Abs(x - cuts[i]) : i \in 1..Len(cuts)}
  IN  CHOOSE d \in ds : \A e \in ds : d <= e

\* StencilPlane handlePointerMove; uv is <<>> (no e.uv) or <<u, v>>.
PlanePointerMove(editable, tool, uv) ==
  /\ mounted /\ ~crashed
  /\ IF ~editable \/ tool # "loop" \/ uv = <<>>
     THEN nextHoverLoop' = <<>>
     ELSE IF MinDist(colCuts, uv[1]) < MinDist(rowCuts, uv[2])
     THEN nextHoverLoop' = <<"row", uv[2]>>
     ELSE nextHoverLoop' = <<"col", uv[1]>>
  /\ UNCHANGED <<mounted, cutsV, gridPoints, nextGridPoints, selectedPoint,
                 nextSelectedPoint, hoverLoop, lutV, bakeV,
                 insV, uploadV, crashed, dragsDone>>
  /\ UNCHANGED <<strokeVars, gizmoVars, layerVars, compositeV>>

\* StencilPlane handleClick, with handleInternalAddLoop and
\* PaintableMesh.handleAddLoop (StencilAPI.addCut) for the loop tool.
PlaneClick(editable, tool) ==
  /\ mounted /\ ~crashed
  /\ editable
  /\ IF tool = "select"
     THEN /\ nextSelectedPoint' = <<>>
          /\ UNCHANGED <<cutsV, nextGridPoints, nextHoverLoop, insV, uploadV>>
     ELSE /\ hoverLoop # <<>>
          /\ LET type == hoverLoop[1]
                 val  == hoverLoop[2]
                 r    == HandleInternalAddLoop(gridPoints, rowCuts, colCuts, type, val)
             IN  IF r.threw
                 THEN /\ loopThrew' = TRUE
                      /\ UNCHANGED <<cutsV, nextGridPoints, nextHoverLoop,
                                     nextSelectedPoint, loopsAdded, uploadV>>
                 ELSE /\ loopsAdded < MaxLoops
                      /\ nextGridPoints' = r.points
                      /\ nextRowCuts' = IF type = "row" THEN AddCut(nextRowCuts, val)
                                                        ELSE nextRowCuts
                      /\ nextColCuts' = IF type = "col" THEN AddCut(nextColCuts, val)
                                                        ELSE nextColCuts
                      /\ nextHoverLoop' = <<>>
                      /\ loopsAdded' = loopsAdded + 1
                      /\ UNCHANGED <<rowCuts, colCuts, nextSelectedPoint, loopThrew,
                                     uploadV>>
  /\ UNCHANGED <<mounted, gridPoints, selectedPoint, hoverLoop,
                 lutV, bakeV, crashed, dragsDone>>
  /\ UNCHANGED <<strokeVars, gizmoVars, layerVars, compositeV>>

\* CornerHandle onSelect of the handle rendered for gridPoints[r][c]
\* (handles exist while editable && tool === 'select').
SelectPoint(r, c) ==
  /\ mounted /\ ~crashed
  /\ Defined(gridPoints, r) /\ Defined(At(gridPoints, r), c)
  /\ nextSelectedPoint' = <<r, c>>
  /\ UNCHANGED <<mounted, cutsV, gridPoints, nextGridPoints, selectedPoint,
                 hoverLoop, nextHoverLoop, lutV, bakeV, insV, uploadV,
                 crashed, dragsDone>>
  /\ UNCHANGED <<strokeVars, gizmoVars, layerVars, compositeV>>

\* Positions a dragged control point is dropped at.
DragTargets == {Point(QInt(1), QInt(1)), Point(QInt(0 - 1), QInt(0))}

\* TransformControls onChange = handleProxyChange, the proxy being at pos.
ProxyChange(pos) ==
  /\ mounted /\ ~crashed
  /\ selectedPoint # <<>>
  /\ dragsDone < MaxDrags
  /\ dragsDone' = dragsDone + 1
  /\ LET r == selectedPoint[1]
         c == selectedPoint[2]
     IN  IF Defined(nextGridPoints, r) /\ Defined(At(nextGridPoints, r), c)
         THEN /\ nextGridPoints' =
                   [nextGridPoints EXCEPT ![r + 1] = [@ EXCEPT ![c + 1] = pos]]
              /\ UNCHANGED crashed
         ELSE /\ crashed' = TRUE
              /\ UNCHANGED nextGridPoints
  /\ UNCHANGED <<mounted, cutsV, gridPoints, selectedPoint, nextSelectedPoint,
                 hoverLoop, nextHoverLoop, lutV, bakeV, insV, uploadV>>
  /\ UNCHANGED <<strokeVars, gizmoVars, layerVars, compositeV>>

PlanePending ==
  \/ nextGridPoints # gridPoints
  \/ nextSelectedPoint # selectedPoint
  \/ nextHoverLoop # hoverLoop

CutsPending == nextRowCuts # rowCuts \/ nextColCuts # colCuts

\* React renders StencilPlane with its queued state updates applied; the
\* LUT effect follows when gridPoints changed.
RenderPlane ==
  /\ mounted /\ ~crashed
  /\ PlanePending
  /\ gridPoints' = nextGridPoints
  /\ selectedPoint' = nextSelectedPoint
  /\ hoverLoop' = nextHoverLoop
  /\ IF nextGridPoints # gridPoints
     THEN LET e == LutEffect(nextGridPoints, rowCuts, colCuts)
          IN  lutFbo' = e[1] /\ nextLut' = e[2] /\ crashed' = e[3]
     ELSE UNCHANGED <<lutFbo, nextLut, crashed>>
  /\ UNCHANGED <<mounted, cutsV, nextGridPoints, nextSelectedPoint,
                 nextHoverLoop, lutTexture, lutBounds, lastRead, bakeV, insV, uploadV,
                 dragsDone>>
  /\ UNCHANGED <<strokeVars, gizmoVars, layerVars, compositeV>>

\* React renders App with the queued setStencil updaters applied; the new
\* rowCuts / colCuts reach StencilPlane as props and its LUT effect follows.
RenderApp ==
  /\ mounted /\ ~crashed
  /\ CutsPending
  /\ rowCuts' = nextRowCuts
  /\ colCuts' = nextColCuts
  /\ LET e == LutEffect(gridPoints, nextRowCuts, nextColCuts)
          IN  lutFbo' = e[1] /\ nextLut' = e[2] /\ crashed' = e[3]
  /\ UNCHANGED <<mounted, nextRowCuts, nextColCuts, planeV, lutTexture,
                 lutBounds, lastRead, bakeV, insV, uploadV, dragsDone>>
  /\ UNCHANGED <<strokeVars, gizmoVars, layerVars, compositeV>>

\* React renders PaintableMesh with the queued setLutTexture / setLutBounds:
\* ProjectionPreview and ProjectionBaker receive the new props.
RenderMesh ==
  /\ mounted /\ ~crashed
  /\ nextLut # <<>>
  /\ lutTexture' = TRUE
  /\ lutBounds' = nextLut[1]
  /\ nextLut' = <<>>
  /\ UNCHANGED <<mounted, cutsV, planeV, lutFbo, lastRead,
                 bakeV, insV, uploadV, crashed, dragsDone>>
  /\ UNCHANGED <<strokeVars, gizmoVars, layerVars, compositeV>>

\* What a consumer samples: the bounds it was rendered with and the framing
\* of the content lutFBO.texture holds at that moment.
ReadLut == <<lutBounds, lutFbo[1]>>

\* Fault-injection variant of RenderedFrame: the composite is redrawn
\* whether or not it is dirty.
RenderedFrameAlwaysRedraws ==
  /\ ~crashed
  /\ lastRead' = IF mounted /\ lutTexture THEN ReadLut ELSE lastRead
  /\ compositeDirty' = FALSE
  /\ composite' = CompositeOf(sceneLayers)
  /\ redraws' = 1
  /\ frameTick' = ~frameTick
  /\ UNCHANGED <<mounted, cutsV, planeV, lutFbo, lutTexture,
                 lutBounds, nextLut, bakeV, insV, uploadV, crashed, dragsDone>>
  /\ UNCHANGED <<strokeOnly, gizmoVars, layerVars>>

\* One rendered frame: the useFrame callbacks of ProjectionPreview and of
\* PaintableMesh (composite redraw).
RenderedFrame ==
  /\ ~crashed
  /\ lastRead' = IF mounted /\ lutTexture THEN ReadLut ELSE lastRead
  /\ compositeDirty' = FALSE
  /\ composite' = IF compositeDirty THEN CompositeOf(sceneLayers) ELSE composite
  /\ redraws' = IF compositeDirty THEN 1 ELSE 0
  /\ frameTick' = ~frameTick
  /\ UNCHANGED <<mounted, cutsV, planeV, lutFbo, lutTexture,
                 lutBounds, nextLut, bakeV, insV, uploadV, crashed, dragsDone>>
  /\ UNCHANGED <<strokeOnly, gizmoVars, layerVars>>

\* Fault-injection variant of TriggerBake: the LUT texture is not tested.
TriggerBakeWithoutLutTest(stencilObject, stencilTexture, lut) ==
  IF ~stencilObject \/ ~stencilTexture THEN "null" ELSE "image"

\* ProjectionBaker.triggerBake: null, or the baked image.
TriggerBake(stencilObject, stencilTexture, lut) ==
  IF ~stencilObject \/ ~stencilTexture \/ ~lut THEN "null" ELSE "image"

\* Layer ids a REQ_BAKE_PROJECTION event may carry: the layers and one id
\* that is no longer in the list.
RequestIds == Layers \cup {3}

\* handleBakeRequest: "skipped" when it returns before any canvas write.
HandleBakeRequest(layerId) ==
  IF ~mounted THEN "skipped"
  ELSE IF layerId \notin IdsOf(sceneLayers) THEN "skipped"
  ELSE IF TriggerBake(mounted, mounted, lutTexture) = "null" THEN "skipped"
  ELSE "drawn"

\* The REQ_BAKE_PROJECTION listener of PaintableMesh.
BakeHandled(layerId) ==
  /\ ~crashed
  /\ bakesDone < MaxBakes
  /\ bakesDone' = bakesDone + 1
  /\ bakeLog' = <<layerId>>
  /\ IF HandleBakeRequest(layerId) = "drawn"
     THEN /\ lastRead' = ReadLut
          /\ layerBakes' = [layerBakes EXCEPT ![layerId] = @ + 1]
          /\ compositeDirty' = TRUE
     ELSE UNCHANGED <<lastRead, layerBakes, compositeDirty>>
  /\ UNCHANGED <<mounted, cutsV, planeV, lutFbo, lutTexture,
                 lutBounds, nextLut, insV, uploadV, crashed, dragsDone>>
  /\ UNCHANGED <<strokeOnly, gizmoVars, compositeV>>

\* REQ_BAKE_PROJECTION emitted for some layer id.
BakeRequest(layerId) ==
  /\ BakeHandled(layerId)
  /\ UNCHANGED layerVars

\* e.uv of a pointer move: absent, or the pointer on the left edge (u = 0)
\* or on the bottom edge (v = 0) of the plane. On the bottom edge minRowDist
\* is 0 and the hover is a column loop at u; on the left edge minColDist is
\* 0 and the hover is a row loop at v unless v is a row cut: these are all
\* the hoverLoop values handlePointerMove can produce.
UVs ==
  {<<>>} \cup {<<0, v>> : v \in CutValues} \cup {<<u, 0>> : u \in CutValues}

\* Pointer moves over the plane: every uv with the loop tool of an editable
\* stencil, and one move for each way the handler clears the hover.
PointerInputs ==
  {<<TRUE, "loop", uv>> : uv \in UVs}
    \cup {<<FALSE, "loop", <<0, 0>>>>, <<TRUE, "select", <<0, 0>>>>}
GridIndex == 0..(MaxLoops + 1)

\* Loop insertion: the pointer events of the loop tool, the renders that
\* commit their updates.
NextGrid ==
  \/ MountStencil
  \/ \E in \in PointerInputs : PlanePointerMove(in[1], in[2], in[3])
  \/ \E e \in BOOLEAN, tool \in Tools : PlaneClick(e, tool)
  \/ RenderPlane
  \/ RenderApp

SpecGrid == InitGrid /\ [][NextGrid]_vars

\* Control-point drags, the LUT render, its consumers and bake requests.
NextLut ==
  \/ MountStencil
  \/ \E r \in GridIndex, c \in GridIndex : SelectPoint(r, c)
  \/ \E pos \in DragTargets : ProxyChange(pos)
  \/ RenderPlane
  \/ RenderMesh
  \/ RenderedFrame
  \/ \E id \in RequestIds : BakeRequest(id)

SpecLut == InitGrid /\ [][NextLut]_vars

\* ------------------------------------------------------------------------
\* Gizmo interaction controller
\*
\* The pointer listeners are bound by an effect whose dependencies include
\* hoverAxis, activeAxis and mode: they read the values of the last render
\* until the next render re-binds them. A pointer ray enters the model as
\* the axis getHoverAxis finds for it and as the parameter (t2, distance or
\* angle) the ray helpers return, None when they return null. The target
\* keeps an identity orientation for the axis directions; its turns are
\* recorded per axis.
\* ------------------------------------------------------------------------
SingleAxes == {"X", "Y", "Z"}
PlaneAxes == {"XY", "XZ", "YZ"}
Modes == <<"translate", "rotate", "scale">>

\* The values getHoverAxis can return in a mode (onModeChange is given).
HoverResults(m) ==
  {Null, "VIEW", "SWITCH"} \cup SingleAxes
    \cup (IF m = "rotate" THEN {} ELSE PlaneAxes)

\* threshold = 0.1 * scale of getHoverAxis, in the unit of the distances.
HoverThreshold == 2

Rays == {None} \cup {Some(t) : t \in 1..MaxRay}

\* getAxisDir: the component an axis id selects (anything but X, Y is Z).
AxisIndex(axis) == IF axis = "X" THEN 1 ELSE IF axis = "Y" THEN 2 ELSE 3

\* The components a plane id spans; VIEW moves along all three.
PlaneComponents(axis) ==
  IF axis = "XY" THEN {1, 2}
  ELSE IF axis = "XZ" THEN {1, 3}
  ELSE IF axis = "YZ" THEN {2, 3}
  ELSE {1, 2, 3}

\* modes[(idx + 1) % 3]
NextModeOf(m) ==
  LET idx == CHOOSE i \in 1..3 : Modes[i] = m
  IN  Modes[(idx % 3) + 1]

\* Vec3Utils.scaleAndAdd(startPos, axisDir, delta, newPos)
TranslateAlong(startPos, axis, delta) ==
  [startPos EXCEPT ![AxisIndex(axis)] = @ + delta]

\* Vec3Utils.add(startPos, delta, newPos) for a hit on a plane.
TranslateInPlane(startPos, axis, delta) ==
  [k \in 1..3 |-> IF k \in PlaneComponents(axis) THEN startPos[k] + delta
                                                    ELSE startPos[k]]

\* The three target.scale.set calls of the 1-axis scale branch.
ScaleOneAxis(startScale, axis, scaleFactor) ==
  IF axis = "X"
  THEN <<QMul(startScale[1], scaleFactor), startScale[2], startScale[3]>>
  ELSE IF axis = "Y"
  THEN <<startScale[1], QMul(startScale[2], scaleFactor), startScale[3]>>
  ELSE IF axis = "Z"
  THEN <<startScale[1], startScale[2], QMul(startScale[3], scaleFactor)>>
  ELSE scale

\* The three target.scale.set calls of the plane scale branch.
ScalePlane(startScale, axis, ratio) ==
  [k \in 1..3 |-> IF k \in PlaneComponents(axis) THEN QMul(startScale[k], ratio)
                                                    ELSE startScale[k]]

\* target.scale.set of the uniform (VIEW) scale branch.
ScaleUniform(startScale, ratio) ==
  [k \in 1..3 |-> QMul(startScale[k], ratio)]

InitGizmo ==
  /\ \E m \in {"translate", "rotate", "scale"} : GizmoStart(m)
  /\ GridIdle /\ StrokeIdle /\ compositeDirty = FALSE /\ LayersIdle

\* onPointerMove with activeAxis set: the drag branch of the rendered mode.
DragMove(ray) ==
  /\ IF mode = "translate"
     THEN /\ position' =
               IF ray = None THEN dragStartTargetPos
               ELSE IF activeAxis \in SingleAxes
               THEN TranslateAlong(dragStartTargetPos, activeAxis,
                                   ValueOf(ray) - dragStartPoint)
               ELSE TranslateInPlane(dragStartTargetPos, activeAxis,
                                     ValueOf(ray) - dragStartPoint)
          /\ UNCHANGED <<scale, quaternion, dragStartAngle>>
     ELSE IF mode = "scale"
     THEN /\ scale' =
               IF ray = None THEN scale
               ELSE IF activeAxis \in SingleAxes
               THEN ScaleOneAxis(dragStartTargetScale, activeAxis,
                                 QInt(1 + (ValueOf(ray) - dragStartPoint)))
               ELSE IF dragStartPoint > 0
               THEN IF activeAxis \in PlaneAxes
                    THEN ScalePlane(dragStartTargetScale, activeAxis,
                                    Q(ValueOf(ray), dragStartPoint))
                    ELSE ScaleUniform(dragStartTargetScale,
                                      Q(ValueOf(ray), dragStartPoint))
               ELSE scale
          /\ UNCHANGED <<position, quaternion, dragStartAngle>>
     ELSE /\ IF activeAxis \in SingleAxes /\ ray # None
             THEN /\ quaternion' = [quaternion EXCEPT ![AxisIndex(activeAxis)] =
                                       @ + (ValueOf(ray) - dragStartAngle)]
                  /\ dragStartAngle' = ValueOf(ray)
             ELSE UNCHANGED <<quaternion, dragStartAngle>>
          /\ UNCHANGED <<position, scale>>
  /\ UNCHANGED nextHoverAxis

\* onPointerMove without activeAxis: the hover logic.
HoverMove(axis) ==
  /\ axis \in HoverResults(mode)
  /\ nextHoverAxis' = IF axis # hoverAxis THEN axis ELSE nextHoverAxis
  /\ UNCHANGED <<position, scale, quaternion, dragStartAngle>>

\* onPointerMove
OnPointerMove(axis, ray) ==
  /\ IF activeAxis # Null THEN DragMove(ray) ELSE HoverMove(axis)
  /\ lastMoveRay' = IF activeAxis # Null THEN ray ELSE None
  /\ UNCHANGED <<hoverAxis, activeAxis, nextActiveAxis, mode, nextMode,
                 buttonDown, captured, dragStartCalls, dragEndCalls,
                 dragStartPoint, dragStartTargetPos, dragStartTargetScale,
                 scaleAtDragStart, modeAtMount, modeChangeCalls, presses>>
  /\ UNCHANGED <<strokeVars, gridVars, layerVars, compositeV, rendererV, hoverV,
                 refV>>

\* onPointerDown
OnPointerDown(ray) ==
  /\ ~buttonDown
  /\ presses' = presses + 1
  /\ buttonDown' = TRUE
  /\ IF hoverAxis = Null
     THEN UNCHANGED <<captured, nextMode, modeChangeCalls, nextActiveAxis,
                      dragStartCalls, dragStartPoint, dragStartTargetPos, dragStartTargetScale,
                      dragStartAngle, scaleAtDragStart, refOrigin>>
     ELSE /\ captured' = TRUE
          /\ IF hoverAxis = "SWITCH"
             THEN /\ nextMode' = NextModeOf(mode)
                  /\ modeChangeCalls' = modeChangeCalls + 1
                  /\ UNCHANGED <<nextActiveAxis, dragStartCalls, dragStartPoint,
                                 dragStartTargetPos, dragStartTargetScale,
                                 dragStartAngle, scaleAtDragStart, refOrigin>>
             ELSE /\ nextActiveAxis' = hoverAxis
                  /\ dragStartCalls' = dragStartCalls + 1
                  /\ scaleAtDragStart' = scale
                  /\ dragStartTargetPos' = position
                  /\ dragStartTargetScale' = scale
                  /\ dragStartPoint' =
                       IF mode # "rotate" /\ ray # None THEN ValueOf(ray)
                                                        ELSE dragStartPoint
                  /\ dragStartAngle' =
                       IF mode = "rotate" /\ hoverAxis \in SingleAxes /\ ray # None
                       THEN ValueOf(ray) ELSE dragStartAngle
                  /\ refOrigin' =
                       LET origin == <<dragStartCalls + 1, hoverAxis, mode>>
                       IN  IF ray = None THEN refOrigin
                           ELSE IF mode # "rotate"
                           THEN [refOrigin EXCEPT !.point = origin]
                           ELSE IF hoverAxis \in SingleAxes
                           THEN [refOrigin EXCEPT !.angle = origin]
                           ELSE refOrigin
                  /\ UNCHANGED <<nextMode, modeChangeCalls>>
  /\ UNCHANGED <<hoverAxis, activeAxis, nextHoverAxis, mode, dragEndCalls,
                 position, scale, quaternion, modeAtMount, lastMoveRay>>
  /\ UNCHANGED <<strokeVars, gridVars, layerVars, compositeV, rendererV, hoverV>>

\* onPointerUp (window listener). Without activeAxis the handler does
\* nothing and the browser drops the capture after the event.
OnPointerUp ==
  /\ buttonDown
  /\ buttonDown' = FALSE
  /\ captured' = FALSE
  /\ IF activeAxis # Null
     THEN /\ nextActiveAxis' = Null
          /\ dragEndCalls' = dragEndCalls + 1
     ELSE UNCHANGED <<nextActiveAxis, dragEndCalls>>
  /\ UNCHANGED <<hoverAxis, activeAxis, nextHoverAxis, mode, nextMode,
                 dragStartCalls, position, scale, quaternion, dragStartPoint,
                 dragStartTargetPos, dragStartTargetScale, dragStartAngle,
                 scaleAtDragStart, modeAtMount, modeChangeCalls, lastMoveRay,
                 presses>>
  /\ UNCHANGED <<strokeVars, gridVars, layerVars, compositeV, rendererV, hoverV,
                 refV>>

GizmoPending ==
  \/ nextHoverAxis # hoverAxis
  \/ nextActiveAxis # activeAxis
  \/ nextMode # mode

\* React renders Gizmo with the queued state and the new mode prop; the
\* effect re-binds the three listeners.
GizmoRender ==
  /\ GizmoPending
  /\ hoverAxis' = nextHoverAxis
  /\ activeAxis' = nextActiveAxis
  /\ mode' = nextMode
  /\ UNCHANGED <<nextHoverAxis, nextActiveAxis, nextMode, buttonDown, captured,
                 dragStartCalls, dragEndCalls, position, scale, quaternion,
                 dragStartPoint, dragStartTargetPos, dragStartTargetScale,
                 dragStartAngle, scaleAtDragStart, modeAtMount,
                 modeChangeCalls, lastMoveRay, presses>>
  /\ UNCHANGED <<strokeVars, gridVars, layerVars, compositeV, rendererV, hoverV,
                 refV>>

AllAxes == {Null, "VIEW", "SWITCH"} \cup SingleAxes \cup PlaneAxes

\* A pointer move is decided by the axis under the ray when the gizmo
\* hovers and by the ray parameter when it drags.
MoveInputs == {<<axis, None>> : axis \in AllAxes} \cup {<<Null, ray>> : ray \in Rays}

NextGizmo ==
  \/ \E in \in MoveInputs : OnPointerMove(in[1], in[2])
  \/ \E ray \in Rays : presses < MaxPresses /\ OnPointerDown(ray)
  \/ OnPointerUp
  \/ GizmoRender

SpecGizmo == InitGizmo /\ [][NextGizmo]_vars

\* ------------------------------------------------------------------------
\* Mode-switch handle: the gizmo with a pointer that visits the SWITCH
\* handle and the X handle, pressed up to MaxClicks times.
\* ------------------------------------------------------------------------
SwitchInputs ==
  {<<Null, None>>, <<"SWITCH", None>>, <<"X", None>>, <<Null, Some(1)>>}

NextSwitch ==
  \/ \E in \in SwitchInputs : OnPointerMove(in[1], in[2])
  \/ presses < MaxClicks /\ OnPointerDown(Some(1))
  \/ OnPointerUp
  \/ GizmoRender

SpecSwitch == InitGizmo /\ [][NextSwitch]_vars

\* ------------------------------------------------------------------------
\* Layer list: the handlers of App, the render that hands the list to
\* PaintableMesh, the delayed bake request of a projection.
\*
\* handleRemoveLayer reads the layers of App's last render and sets a value;
\* the other handlers queue functional updates. App's render and the render
\* of PaintableMesh with the new layers prop are taken as one step.
\* ------------------------------------------------------------------------
layerRest == <<strokeOnly, gridVars, gizmoVars, compositeV>>

\* handleAddLayer
HandleAddLayer ==
  /\ layerSeq <= MaxLayerId
  /\ layerOps < MaxLayerOps
  /\ layerOps' = layerOps + 1
  /\ nextLayers' = Append(nextLayers, Layer(layerSeq))
  /\ nextActiveLayerId' = layerSeq
  /\ layerSeq' = layerSeq + 1
  /\ compositeDirty' = TRUE
  /\ UNCHANGED <<layers, sceneLayers, bakeTimers, lastRemove, activeLayerId>>
  /\ UNCHANGED layerRest

\* handleRemoveLayer
HandleRemoveLayer(id) ==
  /\ id \in IdsOf(layers)
  /\ layerOps < MaxLayerOps
  /\ layerOps' = layerOps + 1
  /\ LET newLayers == Remove(layers, id)
     IN  IF Len(newLayers) = Len(layers)
         THEN /\ lastRemove' = <<id, "kept">>
              /\ UNCHANGED <<nextLayers, compositeDirty, nextActiveLayerId>>
         ELSE /\ lastRemove' = <<id, "removed">>
              /\ nextLayers' = newLayers
              /\ nextActiveLayerId' =
                   IF activeLayerId = id THEN newLayers[Len(newLayers)].id
                                         ELSE nextActiveLayerId
              /\ compositeDirty' = TRUE
  /\ UNCHANGED <<layers, sceneLayers, layerSeq, bakeTimers, activeLayerId>>
  /\ UNCHANGED layerRest

\* handleToggleVisibility
HandleToggleVisibility(id) ==
  /\ id \in IdsOf(layers)
  /\ layerOps < MaxLayerOps
  /\ layerOps' = layerOps + 1
  /\ nextLayers' = ToggleVisibility(nextLayers, id)
  /\ compositeDirty' = TRUE
  /\ UNCHANGED <<layers, sceneLayers, layerSeq, bakeTimers, lastRemove, activeV>>
  /\ UNCHANGED layerRest

\* handleReorderLayer
HandleReorderLayer(id, direction) ==
  /\ id \in IdsOf(layers)
  /\ layerOps < MaxLayerOps
  /\ layerOps' = layerOps + 1
  /\ nextLayers' = Reorder(nextLayers, id, direction)
  /\ compositeDirty' = TRUE
  /\ UNCHANGED <<layers, sceneLayers, layerSeq, bakeTimers, lastRemove, activeV>>
  /\ UNCHANGED layerRest

\* handleRenameLayer
HandleRenameLayer(id, name) ==
  /\ id \in IdsOf(layers)
  /\ layerOps < MaxLayerOps
  /\ layerOps' = layerOps + 1
  /\ nextLayers' = Rename(nextLayers, id, name)
  /\ UNCHANGED <<layers, sceneLayers, layerSeq, bakeTimers, lastRemove, activeV>>
  /\ UNCHANGED <<layerRest, compositeDirty>>

\* handleProjectCommand (CMD_PROJECT_STENCIL): the new layer is queued and
\* the bake request is left to a timer.
HandleProjectCommand ==
  /\ layerSeq <= MaxLayerId
  /\ layerOps < MaxLayerOps
  /\ layerOps' = layerOps + 1
  /\ nextLayers' = Append(nextLayers, Layer(layerSeq))
  /\ bakeTimers' = Append(bakeTimers, layerSeq)
  /\ nextActiveLayerId' = layerSeq
  /\ layerSeq' = layerSeq + 1
  /\ UNCHANGED <<layers, sceneLayers, lastRemove, activeLayerId>>
  /\ UNCHANGED <<layerRest, compositeDirty>>

\* The setTimeout callback: REQ_BAKE_PROJECTION for the projection layer.
BakeTimeout ==
  /\ bakeTimers # <<>>
  /\ BakeHandled(Head(bakeTimers))
  /\ bakeTimers' = Tail(bakeTimers)
  /\ UNCHANGED <<layers, nextLayers, sceneLayers, layerSeq, lastRemove, layerOps,
                 activeV>>

\* React renders App and PaintableMesh with the queued layers; the effects
\* on [layers] re-bind the bus listeners and mark the composite dirty.
RenderLayers ==
  /\ nextLayers # layers
  /\ layers' = nextLayers
  /\ sceneLayers' = nextLayers
  /\ activeLayerId' = nextActiveLayerId
  /\ compositeDirty' = TRUE
  /\ UNCHANGED <<nextLayers, layerSeq, bakeTimers, lastRemove, layerOps,
                 nextActiveLayerId>>
  /\ UNCHANGED layerRest

\* App after its mount effect: nothing rendered yet, the base layer queued.
InitLayers ==
  /\ LayersStart(<<>>, <<Layer(1)>>)
  /\ GridIdle /\ StrokeIdle /\ compositeDirty = FALSE /\ GizmoIdle

NextLayers ==
  \/ HandleAddLayer
  \/ \E id \in AllLayerIds : HandleRemoveLayer(id)
  \/ \E id \in AllLayerIds : HandleToggleVisibility(id)
  \/ \E id \in AllLayerIds, direction \in {"up", "down"} : HandleReorderLayer(id, direction)
  \/ \E id \in AllLayerIds, name \in LayerNames : HandleRenameLayer(id, name)
  \/ HandleProjectCommand
  \/ BakeTimeout
  \/ RenderLayers
  \/ RenderedFrame

SpecLayers == InitLayers /\ [][NextLayers]_vars

\* ------------------------------------------------------------------------
\* Projection: the Project command with its delayed bake request, next to a
\* paint gesture, layer changes, the stencil's first LUT and the frames.
\* ------------------------------------------------------------------------
NextProject ==
  \/ HandleProjectCommand
  \/ BakeTimeout
  \/ HandleAddLayer
  \/ RenderLayers
  \/ MountStencil
  \/ RenderMesh
  \/ RenderedFrame
  \/ HandlePointerDown(0, 1)
  \/ \E p \in 1..PaintLen : HandlePointerMove(p)
  \/ HandlePointerUp

SpecProject == InitGrid /\ [][NextProject]_vars

\* ------------------------------------------------------------------------
\* Lost pointer capture: the browser cancels the pointer (pointercancel,
\* lostpointercapture) during a paint gesture or a gizmo drag and sends no
\* pointerup. Neither component listens to these events.
\* ------------------------------------------------------------------------
\* The pointer of a paint gesture is cancelled: no handler of the mesh runs.
PaintLostCapture ==
  /\ pointerDown /\ isPainting
  /\ pointerDown' = FALSE
  /\ UNCHANGED <<StrokeBrush, StrokeFlags, isPainting, lastUV, distanceAccumulator,
                 compositeDirty, stamps, pathStart, pointerPos, pathDir, delivered,
                 gestureEnded, emitted>>
  /\ UNCHANGED <<gridVars, gizmoVars, layerVars, compositeV>>

\* The pointer of a gizmo press is cancelled: no listener of the effect runs.
GizmoLostCapture ==
  /\ captured
  /\ captured' = FALSE
  /\ buttonDown' = FALSE
  /\ UNCHANGED <<hoverAxis, activeAxis, nextHoverAxis, nextActiveAxis, mode,
                 nextMode, dragStartCalls, dragEndCalls, position, scale,
                 quaternion, dragStartPoint, dragStartTargetPos,
                 dragStartTargetScale, dragStartAngle, scaleAtDragStart,
                 modeAtMount, modeChangeCalls, lastMoveRay, presses>>
  /\ UNCHANGED <<strokeVars, gridVars, layerVars, compositeV, rendererV, hoverV,
                 refV>>

CaptureInputs == {<<"X", None>>, <<Null, Some(1)>>}

NextCapture ==
  \/ HandlePointerDown(0, 1)
  \/ \E p \in 1..PaintLen : HandlePointerMove(p)
  \/ HandlePointerUp
  \/ PaintLostCapture
  \/ \E in \in CaptureInputs : OnPointerMove(in[1], in[2])
  \/ presses < 1 /\ OnPointerDown(Some(1))
  \/ OnPointerUp
  \/ GizmoRender
  \/ GizmoLostCapture

SpecCapture == InitGizmo /\ [][NextCapture]_vars

\* ------------------------------------------------------------------------
\* Gizmo on a context that cannot draw: the renderer init effect found no
\* WebGL 2 context (rendererRef stays null) or the program did not link
\* (rendererRef set, program null).
\* ------------------------------------------------------------------------
\* The plane quad drawPart draws for the normal axis: 'X' is the YZ quad.
PlaneOfNormal(axis) ==
  IF axis = "X" THEN "YZ" ELSE IF axis = "Y" THEN "XZ" ELSE "XY"

\* drawPart(gl, axis, type, color, hoverAxis, activeAxis): the handle drawn,
\* the colour it gets and whether the opaque outline of a plane is drawn.
DrawPart(axis, type, hover, active) ==
  LET useHighlight == (active = axis) \/ (hover = axis)
  IN  [handle  |-> IF type = "plane" THEN PlaneOfNormal(axis) ELSE axis,
       type    |-> type,
       colour  |-> IF ~useHighlight THEN "canonical"
                   ELSE IF type = "cube" THEN "yellow" ELSE "white",
       outline |-> type = "plane" /\ useHighlight]

\* The drawPart calls of renderGizmos, in order.
RenderGizmos(hover, active, m, showModeSwitch) ==
  LET part(axis, type) == DrawPart(axis, type, hover, active)
      planes == <<part("X", "plane"), part("Y", "plane"), part("Z", "plane")>>
      lines(type) == <<part("X", type), part("Y", type), part("Z", type)>>
  IN  (IF m = "translate"
       THEN <<part("VIEW", "sphere")>> \o planes \o lines("arrow")
       ELSE IF m = "rotate"
       THEN <<part("VIEW", "sphere")>> \o lines("ring")
       ELSE <<part("VIEW", "cube")>> \o planes \o lines("scale_box"))
      \o (IF showModeSwitch THEN <<part("SWITCH", "cube")>> ELSE <<>>)

\* useFrame of Gizmo with GizmoRenderer.renderGizmos (onModeChange given):
\* the pass ends with gl.enable(DEPTH_TEST) and gl.disable(BLEND).
GizmoFrame ==
  /\ gizmoTick' = ~gizmoTick
  /\ gizmoDrawn' = IF rendererRef /\ program
                   THEN RenderGizmos(hoverAxis, activeAxis, mode, TRUE)
                   ELSE None
  /\ glFlags' = IF rendererRef /\ program THEN <<TRUE, FALSE>> ELSE glFlags
  /\ UNCHANGED <<rendererRef, program, hoverV, refV>>
  /\ UNCHANGED <<hoverAxis, activeAxis, nextHoverAxis, nextActiveAxis, mode,
                 nextMode, buttonDown, captured, dragStartCalls, dragEndCalls,
                 position, scale, quaternion, dragStartPoint,
                 dragStartTargetPos, dragStartTargetScale, dragStartAngle,
                 scaleAtDragStart, modeAtMount, modeChangeCalls, lastMoveRay,
                 presses>>
  /\ UNCHANGED <<strokeVars, gridVars, layerVars, compositeV>>

\* <<rendererRef set, program linked>> after the init effect.
RendererContexts == {<<FALSE, FALSE>>, <<TRUE, FALSE>>, <<TRUE, TRUE>>}

InitInert ==
  /\ \E m \in {"translate", "rotate", "scale"} : GizmoMounted(m)
  /\ \E ctx \in RendererContexts : RendererStart(ctx[1], ctx[2])
  /\ rayHits = <<>>
  /\ GridIdle /\ StrokeIdle /\ compositeDirty = FALSE /\ LayersIdle

NextInert ==
  \/ \E in \in CaptureInputs : OnPointerMove(in[1], in[2])
  \/ presses < 1 /\ OnPointerDown(Some(1))
  \/ OnPointerUp
  \/ GizmoRender
  \/ GizmoFrame

SpecInert == InitInert /\ [][NextInert]_vars

\* ------------------------------------------------------------------------
\* Stencil settings changed from the toolbar: the visibility toggle that
\* unmounts StencilPlane, and an image upload whose FileReader / Image
\* callbacks run later with the stencil they closed over.
\* ------------------------------------------------------------------------
\* handleStencilChange('visible', false) and the render that follows it:
\* setStencil({...stencil, visible: false}) replaces what the queued
\* updaters made of the cuts, StencilPlane unmounts and its state is
\* dropped; PaintableMesh keeps lutTexture / lutBounds.
HideStencil ==
  /\ mounted /\ ~crashed
  /\ mounted' = FALSE
  /\ nextRowCuts' = rowCuts
  /\ nextColCuts' = colCuts
  /\ gridPoints' = <<>>
  /\ nextGridPoints' = <<>>
  /\ selectedPoint' = <<>>
  /\ nextSelectedPoint' = <<>>
  /\ hoverLoop' = <<>>
  /\ nextHoverLoop' = <<>>
  /\ lutTexture' = (lutTexture \/ nextLut # <<>>)
  /\ lutBounds' = IF nextLut # <<>> THEN nextLut[1] ELSE lutBounds
  /\ nextLut' = <<>>
  /\ UNCHANGED <<rowCuts, colCuts, lutFbo, lastRead, bakeV, insV, uploadV,
                 crashed, dragsDone>>
  /\ UNCHANGED <<strokeVars, gizmoVars, layerVars, compositeV>>

\* handleUploadStencil: the callbacks close over the stencil of this render.
HandleUploadStencil ==
  /\ ~crashed
  /\ uploadStencil = <<>>
  /\ uploadStencil' = <<rowCuts, colCuts>>
  /\ UNCHANGED <<mounted, cutsV, planeV, lutV, bakeV, insV, crashed, dragsDone>>
  /\ UNCHANGED <<strokeVars, gizmoVars, layerVars, compositeV>>

\* img.onload of the upload while the plane is shown:
\* setStencil({...stencil, image, aspectRatio, visible: true}).
UploadLoaded ==
  /\ mounted /\ ~crashed
  /\ uploadStencil # <<>>
  /\ nextRowCuts' = uploadStencil[1]
  /\ nextColCuts' = uploadStencil[2]
  /\ uploadStencil' = <<>>
  /\ UNCHANGED <<mounted, rowCuts, colCuts, planeV, lutV, bakeV, insV,
                 crashed, dragsDone>>
  /\ UNCHANGED <<strokeVars, gizmoVars, layerVars, compositeV>>

\* The pointer move of the loop tool that hovers the row loop at 0.5, and
\* the move that clears the hover.
RemountInputs ==
  {<<TRUE, "loop", <<0, HalfSteps>>>>, <<TRUE, "select", <<0, 0>>>>}

NextRemount ==
  \/ MountStencil
  \/ HideStencil
  \/ HandleUploadStencil
  \/ UploadLoaded
  \/ \E in \in RemountInputs : PlanePointerMove(in[1], in[2], in[3])
  \/ PlaneClick(TRUE, "loop")
  \/ SelectPoint(0, 0)
  \/ \E pos \in DragTargets : ProxyChange(pos)
  \/ RenderPlane
  \/ RenderApp
  \/ RenderMesh

SpecRemount == InitGrid /\ [][NextRemount]_vars

\* ------------------------------------------------------------------------
\* getHoverAxis. A pointer ray enters as the results of the hit tests the
\* function makes: center / switch tell whether intersectSphere hits the
\* center handle / the switch handle, line[a] is distRaySegment to the
\* segment of axis a, planes the plane quads checkPlane accepts, ring[a]
\* what checkRing returns for the ring of axis a (None for Infinity);
\* onModeChange tells whether the prop is given. Distances are in units of
\* which HoverThreshold make the threshold 0.1 * scale.
\* ------------------------------------------------------------------------
\* d < minDist, minDist being Infinity when None.
Below(d, minDist) == minDist = None \/ d < ValueOf(minDist)

\* Fault-injection variant of CloserLine: every line within the threshold
\* replaces the best one, whatever its distance.
CloserLineLastWins(best, id, d) ==
  IF d < HoverThreshold THEN [axis |-> id, min |-> Some(d)] ELSE best

\* if (d < threshold && d < minDist) { minDist = d; bestAxis = a.id }
CloserLine(best, id, d) ==
  IF d < HoverThreshold /\ Below(d, best.min)
  THEN [axis |-> id, min |-> Some(d)]
  ELSE best

\* if (dx < minDist) { minDist = dx; bestAxis = 'X' } for a ring.
CloserRing(best, id, t) ==
  IF t # None /\ Below(ValueOf(t), best.min)
  THEN [axis |-> id, min |-> t]
  ELSE best

NoBest == [axis |-> Null, min |-> None]

BestLine(line) ==
  CloserLine(CloserLine(CloserLine(NoBest, "X", line[1]), "Y", line[2]),
             "Z", line[3])

BestRing(ring) ==
  CloserRing(CloserRing(CloserRing(NoBest, "X", ring[1]), "Y", ring[2]),
             "Z", ring[3])

GetHoverAxis(m, hits) ==
  IF hits.center THEN "VIEW"
  ELSE IF hits.onModeChange /\ hits.switch THEN "SWITCH"
  ELSE IF m = "translate" \/ m = "scale"
  THEN IF BestLine(hits.line).axis # Null THEN BestLine(hits.line).axis
       ELSE IF "YZ" \in hits.planes THEN "YZ"
       ELSE IF "XZ" \in hits.planes THEN "XZ"
       ELSE IF "XY" \in hits.planes THEN "XY"
       ELSE Null
  ELSE BestRing(hits.ring).axis

Distances == 0..MaxDist
NoLines == <<MaxDist, MaxDist, MaxDist>>
NoRings == <<None, None, None>>

\* The hit tests a pointer ray can give in mode m: the tests the mode does
\* not make are left at their misses.
HitTests(m) ==
  IF m = "rotate"
  THEN [center : BOOLEAN, switch : BOOLEAN, onModeChange : BOOLEAN,
        line : {NoLines}, planes : {{}},
        ring : ({None} \cup {Some(t) : t \in 1..MaxDist})
                 \X ({None} \cup {Some(t) : t \in 1..MaxDist})
                 \X ({None} \cup {Some(t) : t \in 1..MaxDist})]
  ELSE [center : BOOLEAN, switch : BOOLEAN, onModeChange : BOOLEAN,
        line : Distances \X Distances \X Distances,
        planes : SUBSET PlaneAxes, ring : {NoRings}]

\* A pointer-move whose ray gives the hit tests rayHits.
HoverRayMove ==
  /\ rayHits # <<>>
  /\ OnPointerMove(GetHoverAxis(mode, rayHits), None)

InitHover ==
  /\ \E m \in {"translate", "rotate", "scale"} :
       /\ GizmoMounted(m) /\ RendererStart(TRUE, TRUE)
       /\ rayHits \in HitTests(m)
  /\ GridIdle /\ StrokeIdle /\ compositeDirty = FALSE /\ LayersIdle

NextHover ==
  \/ HoverRayMove
  \/ GizmoRender

SpecHover == InitHover /\ [][NextHover]_vars

\* ------------------------------------------------------------------------
\* Gizmo drawing: the frames of the gizmo between the hover moves, one
\* press and the renders, on a GL context whose enable flags the other
\* passes of the frame (three.js drawing the scene, whose mesh material is
\* transparent) leave in any combination.
\* ------------------------------------------------------------------------
SceneDraw(depth, blend) ==
  /\ glFlags # <<depth, blend>>
  /\ glFlags' = <<depth, blend>>
  /\ UNCHANGED <<rendererRef, program, gizmoDrawn, gizmoTick, hoverV, refV>>
  /\ UNCHANGED <<hoverAxis, activeAxis, nextHoverAxis, nextActiveAxis, mode,
                 nextMode, buttonDown, captured, dragStartCalls, dragEndCalls,
                 position, scale, quaternion, dragStartPoint,
                 dragStartTargetPos, dragStartTargetScale, dragStartAngle,
                 scaleAtDragStart, modeAtMount, modeChangeCalls, lastMoveRay,
                 presses>>
  /\ UNCHANGED <<strokeVars, gridVars, layerVars, compositeV>>

NextDraw ==
  \/ \E axis \in AllAxes : OnPointerMove(axis, None)
  \/ presses < 1 /\ OnPointerDown(Some(1))
  \/ OnPointerUp
  \/ GizmoRender
  \/ GizmoFrame
  \/ \E depth \in BOOLEAN, blend \in BOOLEAN : SceneDraw(depth, blend)

SpecDraw == InitGizmo /\ [][NextDraw]_vars

\* ------------------------------------------------------------------------
\* Brush mask loading (Scene.tsx 892-903, brushService.ts processMaskTip)
\* ------------------------------------------------------------------------
MaskSources == 0..MaxMasks

\* What the processMaskTip promise resolves with: the alpha mask canvas made
\* from the image, or null when the image fails to load (img.onerror).
ProcessMaskTip(src) == IF src = 0 THEN None ELSE <<"mask", src>>

RemoveAt(seq, i) == SubSeq(seq, 1, i - 1) \o SubSeq(seq, i + 1, Len(seq))

\* The brush is rendered with another maskImage and the effect on
\* [brush.maskImage] runs: it starts a load, or clears the ref.
MaskEffect(img) ==
  /\ maskChanges < MaxMaskChanges
  /\ img # maskImage
  /\ maskChanges' = maskChanges + 1
  /\ maskImage' = img
  /\ IF img # None
     THEN /\ pendingMasks' = Append(pendingMasks, ValueOf(img))
          /\ UNCHANGED maskCanvasRef
     ELSE /\ maskCanvasRef' = None
          /\ UNCHANGED pendingMasks
  /\ UNCHANGED <<brushSize, brushSpacing, isAltPressed, gizmoDragging,
                 isStencilEditMode, activeLayerOk, isPainting, lastUV,
                 distanceAccumulator, stamps, pointerDown, pathStart,
                 pointerPos, pathDir, delivered, gestureEnded, emitted,
                 compositeDirty>>
  /\ UNCHANGED <<gridVars, gizmoVars, layerVars, compositeV>>

\* The .then callback of the i-th pending processMaskTip promise.
MaskResolved(i) ==
  /\ i \in 1..Len(pendingMasks)
  /\ maskCanvasRef' = ProcessMaskTip(pendingMasks[i])
  /\ pendingMasks' = RemoveAt(pendingMasks, i)
  /\ UNCHANGED <<maskImage, maskChanges>>
  /\ UNCHANGED <<brushSize, brushSpacing, isAltPressed, gizmoDragging,
                 isStencilEditMode, activeLayerOk, isPainting, lastUV,
                 distanceAccumulator, stamps, pointerDown, pathStart,
                 pointerPos, pathDir, delivered, gestureEnded, emitted,
                 compositeDirty>>
  /\ UNCHANGED <<gridVars, gizmoVars, layerVars, compositeV>>

InitMask ==
  /\ StrokeIdle /\ compositeDirty = FALSE
  /\ GridIdle /\ GizmoIdle /\ LayersIdle

NextMask ==
  \/ \E img \in {None} \cup {Some(src) : src \in MaskSources} : MaskEffect(img)
  \/ \E i \in 1..MaxMaskChanges : MaskResolved(i)

SpecMask == InitMask /\ [][NextMask]_vars

\* ------------------------------------------------------------------------
\* Paint gestures under the blocking flags, with the capture loss of
\* PaintLostCapture (Scene.tsx 1035-1061)
\* ------------------------------------------------------------------------
NextBlocked ==
  \/ HandlePointerDown(0, 1)
  \/ \E p \in 1..PaintLen : HandlePointerMove(p)
  \/ HandlePointerUp
  \/ PaintLostCapture
  \/ \E b \in BOOLEAN : SetAltPressed(b)
  \/ \E b \in BOOLEAN : SetGizmoDragging(b)
  \/ \E b \in BOOLEAN : SetStencilEditMode(b)

SpecBlocked == InitStroke /\ [][NextBlocked]_vars

\* ========================================================================
\* Properties
\* ========================================================================
\* ------------------------------------------------------------------------
\* C1
\* ------------------------------------------------------------------------
\* A finished gesture whose first and last pointer events reached paintStroke.
StraightGestureDone ==
  /\ gestureEnded
  /\ activeLayerOk
  /\ delivered # <<>>
  /\ delivered[1] = pathStart
  /\ delivered[Len(delivered)] = pointerPos

\* The stamps of the same path delivered as its start and end points alone.
DirectStamps ==
  LET step == StepSize(brushSize, brushSpacing)
      s0   == PaintStroke([last |-> None, acc |-> 0, stamps |-> <<>>],
                          ToUnits(pathStart), step)
  IN  IF pointerPos = pathStart THEN s0.stamps
      ELSE PaintStroke(s0, ToUnits(pointerPos), step).stamps

\* C1: over a straight gesture of pixel length L the number of stamps is
\* floor(L / max(1, S*r)) + 1 and the stamp positions are those of the same
\* path delivered without intermediate pointer-move events, however many
\* intermediate events were delivered.
C1_StampsIndependentOfSampling ==
  StraightGestureDone =>
    /\ Len(stamps) = (ToUnits(Abs(pointerPos - pathStart))
                        \div StepSize(brushSize, brushSpacing)) + 1
    /\ stamps = DirectStamps

\* ------------------------------------------------------------------------
\* C2
\* ------------------------------------------------------------------------
StrictlyIncreasing(cuts) == \A i \in 1..(Len(cuts) - 1) : cuts[i] < cuts[i + 1]
InUnitInterval(cuts) == \A i \in 1..Len(cuts) : cuts[i] >= 0 /\ cuts[i] <= CutSteps

\* C2: after any sequence of loop insertions from rowCuts = colCuts = [0, 1]
\* with every inserted value in [0, 1], rowCuts and colCuts are strictly
\* increasing and all their elements lie in [0, 1].
C2_CutsStrictlyIncreasing ==
  /\ StrictlyIncreasing(rowCuts) /\ InUnitInterval(rowCuts)
  /\ StrictlyIncreasing(colCuts) /\ InUnitInterval(colCuts)

\* ------------------------------------------------------------------------
\* C3
\* ------------------------------------------------------------------------
\* Every update queued by the insertions so far has been rendered.
InsertionsApplied ==
  /\ mounted /\ ~crashed
  /\ loopsAdded > 0
  /\ nextGridPoints = gridPoints
  /\ ~CutsPending

\* C3: once the gridPoints update and the cuts update of the insertions
\* have been applied, gridPoints has rowCuts.length rows of colCuts.length
\* points each, also when two insertions were issued before a re-render.
C3_GridMatchesCuts ==
  InsertionsApplied =>
    /\ Len(gridPoints) = Len(rowCuts)
    /\ \A r \in 1..Len(gridPoints) : Len(gridPoints[r]) = Len(colCuts)

\* ------------------------------------------------------------------------
\* C4
\* ------------------------------------------------------------------------
NoDuplicates(cuts) ==
  \A i \in 1..Len(cuts) : \A j \in 1..Len(cuts) : cuts[i] = cuts[j] => i = j

Contains(cuts, v) == \E i \in 1..Len(cuts) : cuts[i] = v

\* This step is a handleClick of the loop tool that ran handleInternalAddLoop.
LoopClick == loopsAdded' # loopsAdded \/ loopThrew' # loopThrew

\* C4: an insertion at a value equal to an existing cut (0 and 1 included)
\* does not throw and leaves no two equal entries in the cuts array.
C4_ExistingCutInsertion ==
  [][ (LoopClick /\ hoverLoop # <<>>
         /\ Contains(IF hoverLoop[1] = "row" THEN nextRowCuts ELSE nextColCuts,
                     hoverLoop[2]))
      => /\ ~loopThrew'
         /\ NoDuplicates(IF hoverLoop[1] = "row" THEN nextRowCuts' ELSE nextColCuts')
    ]_vars

\* ------------------------------------------------------------------------
\* C5
\* ------------------------------------------------------------------------
\* The handler works on a rendered grid that is complete and up to date.
GridSettled ==
  /\ mounted /\ ~crashed
  /\ nextGridPoints = gridPoints
  /\ ~CutsPending
  /\ IsGeometryValid(gridPoints, rowCuts, colCuts)
  /\ AllPointsDefined(gridPoints, rowCuts, colCuts)

\* p divides the segment from pA (cut a) to pB (cut b) as v divides [a, b].
Between(p, pA, pB, a, v, b) ==
  \A k \in 1..2 :
    QMul(QInt(b - a), p[k]) = QAdd(QMul(QInt(b - v), pA[k]), QMul(QInt(v - a), pB[k]))

\* seq with one element put in at position i + 1, the rest kept in order.
InsertedAt(new, old, i) ==
  /\ Len(new) = Len(old) + 1
  /\ SubSeq(new, 1, i) = SubSeq(old, 1, i)
  /\ SubSeq(new, i + 2, Len(new)) = SubSeq(old, i + 1, Len(old))

RowInserted(i, v) ==
  /\ InsertedAt(nextRowCuts', rowCuts, i) /\ nextRowCuts'[i + 1] = v
  /\ nextColCuts' = colCuts
  /\ InsertedAt(nextGridPoints', gridPoints, i)
  /\ Len(nextGridPoints'[i + 1]) = Len(colCuts)
  /\ \A c \in 1..Len(colCuts) :
        Between(nextGridPoints'[i + 1][c], gridPoints[i][c], gridPoints[i + 1][c],
                rowCuts[i], v, rowCuts[i + 1])

ColInserted(j, u) ==
  /\ InsertedAt(nextColCuts', colCuts, j) /\ nextColCuts'[j + 1] = u
  /\ nextRowCuts' = rowCuts
  /\ Len(nextGridPoints') = Len(gridPoints)
  /\ \A r \in 1..Len(gridPoints) :
        /\ InsertedAt(nextGridPoints'[r], gridPoints[r], j)
        /\ Between(nextGridPoints'[r][j + 1], gridPoints[r][j], gridPoints[r][j + 1],
                   colCuts[j], u, colCuts[j + 1])

MidRow ==
  <<Point(Q(0 - AspectRatio, 2), QInt(0)), Point(Q(AspectRatio, 2), QInt(0))>>

C6_BoundsMatchLutContent ==
  lastRead # <<>> => lastRead[1] = lastRead[2]

\* ------------------------------------------------------------------------
\* C7
\* ------------------------------------------------------------------------
\* This step is a run of the REQ_BAKE_PROJECTION handler.
BakeStep == bakesDone' = bakesDone + 1

\* C7: a bake request handled while the baker is unmounted, the LUT texture
\* is null or the layer id is not in the layer list writes to no layer
\* canvas and does not mark the composite dirty.
C7_UnreadyBakeWritesNothing ==
  [][ (BakeStep /\ (~mounted \/ ~lutTexture \/ bakeLog'[1] \notin Layers))
      => (layerBakes' = layerBakes /\ compositeDirty' = compositeDirty)
    ]_vars

\* A bake request for an existing layer was handled before the LUT texture
\* reached PaintableMesh.
C7_BakeBeforeLut ==
  /\ mounted /\ ~lutTexture
  /\ bakeLog # <<>> /\ bakeLog[1] \in Layers
  /\ \A l \in Layers : layerBakes[l] = 0

\* ------------------------------------------------------------------------
\* C8
\* ------------------------------------------------------------------------
\* C8: in every reachable state at most one of hoverAxis and activeAxis is
\* non-null, and activeAxis is non-null only between a pointer-down on a
\* hovered non-SWITCH axis and the matching pointer-up.
C8_OneAxisAtATime ==
  /\ hoverAxis = Null \/ activeAxis = Null
  /\ activeAxis # Null => (buttonDown /\ dragStartCalls > dragEndCalls)

\* ------------------------------------------------------------------------
\* C9
\* ------------------------------------------------------------------------
\* C9: while the single-axis scale handle of axis A is being dragged (mode
\* 'scale', activeAxis A in {X, Y, Z}, button held), so after each
\* pointer-move of the drag, the two other components of target.scale have
\* their values at drag start.
C9_ScaleDragKeepsOtherAxes ==
  (mode = "scale" /\ activeAxis \in SingleAxes /\ buttonDown) =>
    \A k \in 1..3 : k # AxisIndex(activeAxis) => scale[k] = scaleAtDragStart[k]

\* ------------------------------------------------------------------------
\* C10
\* ------------------------------------------------------------------------
\* C10: whatever the interleaving of pointer events and re-renders, once
\* the pointer is up again and everything queued has been rendered the
\* capture is released, activeAxis is null and onDragEnd has been called
\* once for every onDragStart.
C10_DragEndsOnPointerUp ==
  (~buttonDown /\ ~GizmoPending) =>
    /\ ~captured
    /\ activeAxis = Null
    /\ dragEndCalls = dragStartCalls

\* ------------------------------------------------------------------------
\* C11
\* ------------------------------------------------------------------------
\* The cycle translate -> rotate -> scale -> translate.
ModeCycle(m) ==
  IF m = "translate" THEN "rotate" ELSE IF m = "rotate" THEN "scale" ELSE "translate"

\* A pointer-down handled while hoverAxis is SWITCH.
SwitchClick == presses' # presses /\ hoverAxis = "SWITCH"

\* C11: a pointer-down while hoverAxis is SWITCH calls onModeChange with the
\* successor of the mode in the cycle translate -> rotate -> scale ->
\* translate and makes no drag transition (activeAxis as before, no
\* onDragStart, no drag-start snapshot); after three such clicks the mode
\* is the original one again.
C11_SwitchCyclesMode ==
  [][ SwitchClick =>
        /\ modeChangeCalls' = modeChangeCalls + 1
        /\ nextMode' = ModeCycle(mode)
        /\ UNCHANGED <<activeAxis, nextActiveAxis, dragStartCalls, dragStartPoint,
                       dragStartTargetPos, dragStartTargetScale, dragStartAngle,
                       scaleAtDragStart>>
        /\ modeChangeCalls' = 3 => nextMode' = modeAtMount
    ]_vars

\* ------------------------------------------------------------------------
\* C12
\* ------------------------------------------------------------------------
\* A pointer-move handled by the drag branch: no press, release or render.
DragMoveStep ==
  /\ activeAxis # Null
  /\ presses' = presses /\ buttonDown' = buttonDown
  /\ hoverAxis' = hoverAxis /\ activeAxis' = activeAxis /\ mode' = mode

\* The stored reference distance of a plane or uniform scale drag is zero.
ZeroReference ==
  mode = "scale" /\ activeAxis \notin SingleAxes /\ dragStartPoint = 0

\* C12: a pointer-move of a drag whose closest-point / intersection
\* computation returns null, or whose stored reference distance is zero,
\* leaves the target's position, rotation and scale as they were.
C12_DegenerateMoveSkipped ==
  [][ (DragMoveStep /\ (lastMoveRay' = None \/ ZeroReference)) =>
        UNCHANGED <<position, quaternion, scale>>
    ]_vars

\* ------------------------------------------------------------------------
\* C14
\* ------------------------------------------------------------------------
\* C14: LayerAPI.remove on a list of length <= 1 returns the list unchanged,
\* and after initialisation the layer list is never empty: not the list in
\* App's state, and not the rendered one once the base layer was rendered
\* (until then nothing was rendered and no layer could be removed).
C14_LayerListNeverEmpty ==
  /\ \A id \in AllLayerIds :
       /\ Len(layers) <= 1 => Remove(layers, id) = layers
       /\ Len(nextLayers) <= 1 => Remove(nextLayers, id) = nextLayers
  /\ nextLayers # <<>>
  /\ layers # <<>> \/ (sceneLayers = <<>> /\ lastRemove = <<>>)

\* handleRemoveLayer was called for the only layer and kept it.
C14_LastLayerKept ==
  /\ lastRemove # <<>> /\ lastRemove[2] = "kept"
  /\ Len(layers) = 1 /\ layers[1].id = lastRemove[1]
  /\ nextLayers = layers

\* ------------------------------------------------------------------------
\* C13
\* ------------------------------------------------------------------------
\* A rendered frame.
FrameStep == frameTick' # frameTick

\* A stamp or a bake result is drawn, or PaintableMesh gets a new layers list.
CompositeSourceChanged ==
  \/ stamps' # stamps /\ stamps' # <<>>
  \/ layerBakes' # layerBakes
  \/ sceneLayers' # sceneLayers

\* C13: a stamp, a bake and a change of the layers list mark the composite
\* dirty; a rendered frame that finds it dirty redraws it once from the
\* current layers and clears the flag; a frame that finds it clean does not
\* redraw.
C13_DirtyCompositeRedrawnOnce ==
  [][ /\ CompositeSourceChanged => compositeDirty'
      /\ FrameStep =>
           /\ ~compositeDirty'
           /\ redraws' = (IF compositeDirty THEN 1 ELSE 0)
           /\ composite' =
                (IF compositeDirty
                 THEN <<[i \in 1..Len(sceneLayers) |->
                           IF sceneLayers[i].visible THEN sceneLayers[i].id ELSE 0],
                        layerBakes, stamps>>
                 ELSE composite)
    ]_vars

\* A frame has redrawn the composite with a stamp and a bake result in it.
C13_StampAndBakeRedrawn ==
  /\ redraws = 1 /\ ~compositeDirty
  /\ composite # <<>> /\ composite[3] # <<>>
  /\ \E l \in AllLayerIds : composite[2][l] > 0

\* ------------------------------------------------------------------------
\* C16
\* ------------------------------------------------------------------------
\* C16: no bake result is drawn into a layer canvas while a paint gesture
\* is active (isPaintingRef.current true).
C16_NoBakeWhilePainting ==
  [][ layerBakes' # layerBakes => ~isPainting ]_vars

\* ------------------------------------------------------------------------
\* C18
\* ------------------------------------------------------------------------
\* The setTimeout callback of a Project command runs.
TimerStep == bakeTimers # <<>> /\ bakeTimers' = Tail(bakeTimers)

\* C18: the bake request of a Project command is handled by a handler whose
\* layers list contains the Projection layer, and with the baker ready the
\* result is drawn into that layer's canvas and no other.
C18_BakeFindsProjectionLayer ==
  [][ TimerStep =>
        /\ Head(bakeTimers) \in IdsOf(sceneLayers)
        /\ (mounted /\ lutTexture) =>
             layerBakes' = [layerBakes EXCEPT ![Head(bakeTimers)] = @ + 1]
    ]_vars

\* ------------------------------------------------------------------------
\* C15
\* ------------------------------------------------------------------------
\* C15: when the pointer of a paint gesture goes away (released or capture
\* lost) isPainting becomes false and the last stamped position is cleared;
\* when the capture of a gizmo drag goes away activeAxis becomes null; with
\* or without a pointer-up event.
C15_LostCaptureEndsGesture ==
  [][ /\ (pointerDown /\ ~pointerDown') => (~isPainting' /\ lastUV' = None)
      /\ (captured /\ ~captured' /\ activeAxis # Null) => nextActiveAxis' = Null
    ]_vars

\* ------------------------------------------------------------------------
\* C17
\* ------------------------------------------------------------------------
\* The LUT framing of the grid StencilPlane has rendered.
CurrentLutRect == LutRect(gridPoints', rowCuts', colCuts')

\* C17: whenever a preview frame or a bake reads the LUT, the texture
\* content and the bounds it uses were both rendered from the current grid,
\* never from an older one.
C17_LutReadIsOfCurrentGrid ==
  [][ lastRead' # lastRead =>
        /\ lastRead'[2] = CurrentLutRect
        /\ lastRead'[1] = CurrentLutRect
    ]_vars

\* ------------------------------------------------------------------------
\* C19
\* ------------------------------------------------------------------------
\* The renderer cannot draw: no WebGL 2 context, or the program did not link.
GizmoInert == ~rendererRef \/ ~program

\* C19: once the renderer cannot draw, every frame draws nothing and no
\* pointer event changes hoverAxis or activeAxis or mutates the target
\* transform.
C19_InertGizmoIgnoresPointer ==
  [][ GizmoInert =>
        /\ GizmoInert'
        /\ gizmoDrawn' = None
        /\ hoverAxis' = hoverAxis
        /\ activeAxis' = activeAxis
        /\ <<position, scale, quaternion>>' = <<position, scale, quaternion>>
    ]_vars

\* ------------------------------------------------------------------------
\* C20
\* ------------------------------------------------------------------------
\* The plane is mounted and every queued React update has been rendered.
PlaneSettled ==
  /\ mounted /\ ~crashed
  /\ ~PlanePending /\ ~CutsPending
  /\ nextLut = <<>>

\* C20: whenever the stencil plane is mounted and no React update is
\* pending, gridPoints has one row per row cut and every row has one point
\* per column cut.
C20_GridMatchesCuts ==
  PlaneSettled =>
    /\ Len(gridPoints) = Len(rowCuts)
    /\ \A r \in 1..Len(gridPoints) : Len(gridPoints[r]) = Len(colCuts)

\* ------------------------------------------------------------------------
\* C21
\* ------------------------------------------------------------------------
\* A pointer event of this step reached paintStroke and found the layer.
PaintStrokeCall == delivered' # delivered /\ activeLayerOk

\* Iterations the interpolation loop made in this step.
LoopIterations == Len(stamps') - Len(stamps)

\* C21: the interpolation loop of paintStroke terminates for every brush
\* size and spacing ratio: the step is at least 1 pixel, each iteration
\* takes exactly one step off the accumulator, and on return the accumulator
\* is in [0, stepSize).
C21_StampLoopTerminates ==
  [][ PaintStrokeCall =>
        LET step == StepSize(brushSize, brushSpacing)
        IN  /\ step >= ToUnits(1)
            /\ distanceAccumulator' >= 0
            /\ distanceAccumulator' < step
            /\ (pointerDown /\ lastUV # None) =>
                 /\ LoopIterations >= 0
                 /\ distanceAccumulator' =
                      distanceAccumulator
                        + Abs(ToUnits(pointerPos') - ValueOf(lastUV))
                        - LoopIterations * step
    ]_vars

\* The loop has run with a size-spacing product of 0 and with one below 1.
C21_LoopRanOnFlooredStep ==
  /\ isPainting /\ activeLayerOk
  /\ brushSize * brushSpacing < SpacingDen
  /\ Len(stamps) >= 3

\* ------------------------------------------------------------------------
\* C22
\* ------------------------------------------------------------------------
\* A drag is held: a hovered handle other than SWITCH was pressed and the
\* button is still down.
DragHeld == buttonDown /\ captured /\ nextActiveAxis # Null

\* A pointer-move: no press, no release, no render.
PointerMoveStep ==
  /\ presses' = presses /\ buttonDown' = buttonDown
  /\ hoverAxis' = hoverAxis /\ activeAxis' = activeAxis /\ mode' = mode

\* C22: during a drag every pointer-move leaves activeAxis as captured at
\* the pointer-down, does not recompute hoverAxis, and computes its delta
\* against the axis, the reference and the snapshot of that pointer-down.
C22_DragUsesCapturedAxis ==
  [][ (DragHeld /\ PointerMoveStep) =>
        /\ activeAxis = nextActiveAxis /\ nextActiveAxis' = nextActiveAxis
        /\ nextHoverAxis' = nextHoverAxis
        /\ UNCHANGED <<dragStartPoint, dragStartAngle, dragStartTargetPos,
                       dragStartTargetScale>>
        /\ (mode = "translate" /\ lastMoveRay' # None) =>
             position' =
               IF nextActiveAxis \in SingleAxes
               THEN TranslateAlong(dragStartTargetPos, nextActiveAxis,
                                   ValueOf(lastMoveRay') - dragStartPoint)
               ELSE TranslateInPlane(dragStartTargetPos, nextActiveAxis,
                                     ValueOf(lastMoveRay') - dragStartPoint)
    ]_vars

\* ------------------------------------------------------------------------
\* C23
\* ------------------------------------------------------------------------
\* The linear axes whose segment is within the threshold of the ray.
LinesWithin == {i \in 1..3 : rayHits.line[i] < HoverThreshold}

\* The rings the ray hits.
RingsHit == {i \in 1..3 : rayHits.ring[i] # None}

\* C23: getHoverAxis reports one axis or none, by the first succeeding check
\* in the order center handle, switch handle (only with onModeChange),
\* linear axes, then planes (translate / scale) or rings (rotate); among the
\* linear axes within the threshold the one at minimum distance wins, and a
\* plane is reported only when no linear axis is within the threshold. The
\* hover state takes no other value than the one reported.
C23_HoverAxisPriority ==
  rayHits # <<>> =>
    LET r      == GetHoverAxis(mode, rayHits)
        switch == rayHits.onModeChange /\ rayHits.switch
    IN  /\ nextHoverAxis \in {Null, r}
        /\ r \in HoverResults(mode)
        /\ rayHits.center => r = "VIEW"
        /\ (~rayHits.center /\ switch) => r = "SWITCH"
        /\ r = "VIEW" => rayHits.center
        /\ r = "SWITCH" => switch
        /\ (~rayHits.center /\ ~switch /\ mode # "rotate") =>
             /\ LinesWithin # {} =>
                  /\ r \in SingleAxes
                  /\ AxisIndex(r) \in LinesWithin
                  /\ \A j \in LinesWithin :
                       rayHits.line[AxisIndex(r)] <= rayHits.line[j]
             /\ LinesWithin = {} =>
                  IF rayHits.planes = {} THEN r = Null ELSE r \in rayHits.planes
        /\ (~rayHits.center /\ ~switch /\ mode = "rotate") =>
             IF RingsHit = {} THEN r = Null
             ELSE r \in SingleAxes /\ AxisIndex(r) \in RingsHit

\* The ray is within the threshold of X and, closer, of Y, and hits a plane
\* quad: the hover move has reported Y.
C23_CloserLineReported ==
  /\ rayHits # <<>>
  /\ mode = "translate"
  /\ ~rayHits.center /\ ~rayHits.switch
  /\ rayHits.line[1] = 1 /\ rayHits.line[2] = 0 /\ rayHits.line[3] = MaxDist
  /\ "XY" \in rayHits.planes
  /\ nextHoverAxis = "Y" /\ hoverAxis = "Y"

\* ------------------------------------------------------------------------
\* C24
\* ------------------------------------------------------------------------
\* A frame of the gizmo that drew something.
DrawnFrame == gizmoTick' # gizmoTick /\ gizmoDrawn' # None

\* C24: renderGizmos draws every handle of the mode in its highlight colour
\* (white, yellow for the switch handle) exactly when the handle's own axis
\* is hoverAxis or activeAxis, in its canonical colour otherwise; a plane
\* handle draws its opaque outline only when it is the hovered or active
\* axis.
C24_HighlightFollowsAxis ==
  [][ DrawnFrame =>
        \A i \in 1..Len(gizmoDrawn') :
          LET p   == gizmoDrawn'[i]
              own == p.handle \in {hoverAxis, activeAxis}
          IN  /\ p.colour = IF ~own THEN "canonical"
                            ELSE IF p.handle = "SWITCH" THEN "yellow"
                            ELSE "white"
              /\ p.outline = (p.type = "plane" /\ own)
    ]_vars

\* ------------------------------------------------------------------------
\* C25
\* ------------------------------------------------------------------------
\* C25: renderGizmos restores the GL state on exit: after a frame of the
\* gizmo the DEPTH_TEST and BLEND enable flags have the values they had
\* before it, whatever these values were.
C25_GlFlagsRestored ==
  [][ gizmoTick' # gizmoTick => glFlags' = glFlags ]_vars

\* ------------------------------------------------------------------------
\* C26
\* ------------------------------------------------------------------------
\* C26: every stamp the interpolation loop places during a pointer-move lies
\* on the segment from the previously stamped position to the current
\* pointer position; none lies beyond the pointer.
C26_StampsWithinSegment ==
  [][ (PaintStrokeCall /\ pointerDown /\ lastUV # None) =>
        LET last == ValueOf(lastUV)
            cur  == ToUnits(pointerPos')
        IN  \A i \in (Len(stamps) + 1)..Len(stamps') :
              /\ Min(last, cur) <= stamps'[i]
              /\ stamps'[i] <= Max(last, cur)
    ]_vars

\* ------------------------------------------------------------------------
\* C27
\* ------------------------------------------------------------------------
\* The move of the drag reads a reference: dragStartAngle in rotate mode
\* (single axes only), dragStartPoint in the two other modes.
ReadsAngle == mode = "rotate" /\ activeAxis \in SingleAxes
ReadsPoint == mode # "rotate"

\* C27: the reference a pointer-move of a drag computes its delta against
\* (dragStartPoint or dragStartAngle) was written by the pointer-down that
\* started this drag, for the same axis and mode; never left over from an
\* earlier drag or written under another mode.
C27_ReferenceOfThisDrag ==
  [][ (DragMoveStep /\ lastMoveRay' # None) =>
        LET thisDrag == <<dragStartCalls, activeAxis, mode>>
        IN  /\ ReadsPoint => refOrigin.point = thisDrag
            /\ ReadsAngle => refOrigin.angle = thisDrag
    ]_vars

\* ------------------------------------------------------------------------
\* C28
\* ------------------------------------------------------------------------
\* App has rendered its first layer list.
LayersInitialised == layers # <<>>

\* C28: after initialisation activeLayerId is the id of a layer of the layers
\* list, whatever add, remove, project, reorder, rename and toggle operations
\* were issued, also those issued before the previous update was rendered.
C28_ActiveLayerPresent ==
  LayersInitialised => activeLayerId \in IdsOf(layers)

\* ------------------------------------------------------------------------
\* C29
\* ------------------------------------------------------------------------
MaskLoadsSettled == pendingMasks = <<>>

\* C29: once all pending processMaskTip loads have settled, the mask canvas
\* drawStamp reads is that of the current brush.maskImage: null when
\* maskImage is null, else the mask produced from the current maskImage,
\* whatever the order in which the loads resolved.
C29_MaskOfCurrentImage ==
  MaskLoadsSettled =>
    maskCanvasRef = (IF maskImage = None THEN None
                     ELSE ProcessMaskTip(ValueOf(maskImage)))

\* ------------------------------------------------------------------------
\* C30
\* ------------------------------------------------------------------------
\* Alt is pressed, the stencil is visible in edit mode, or a stencil gizmo
\* drag is in progress.
PaintBlocked == isAltPressed \/ isStencilEditMode \/ gizmoDragging

MeshPointerDown == ~pointerDown /\ pointerDown'
MeshPointerMove == pointerDown /\ pointerDown' /\ pointerPos' # pointerPos
MeshPointerUp   == pointerDown /\ ~pointerDown'

StampDrawn ==
  \/ MeshPointerDown /\ stamps' # <<>>
  \/ MeshPointerMove /\ stamps' # stamps

GestureStarts ==
  \/ ~isPainting /\ isPainting'
  \/ MeshPointerDown /\ emitted' # <<>>

PaintEndEmitted ==
  Len(emitted') > Len(emitted) /\ emitted'[Len(emitted')] = "PAINT_END"

\* C30: no pointer-down or pointer-move draws a stamp while Alt is pressed,
\* while the stencil is visible in edit mode or while a stencil gizmo drag is
\* in progress; a paint gesture (PAINT_START, isPainting true) starts only on
\* a pointer-down for which none of these holds; PAINT_END is emitted only
\* for a gesture that was started.
C30_PaintOnlyWhenUnblocked ==
  [][ /\ StampDrawn => ~PaintBlocked
      /\ GestureStarts => (MeshPointerDown /\ ~PaintBlocked
                            /\ emitted' = <<"PAINT_START">>)
      /\ PaintEndEmitted => (MeshPointerUp /\ isPainting
                              /\ emitted = <<"PAINT_START">>)
    ]_vars

====
